---------------------------- MODULE Spec2Model ----------------------------
(***************************************************************************)
(* Verification model of the ai-anonymizing-proxy request pipeline:        *)
(*   - the Detector (AnonymizeText, tokenForMatch, dispatchOllamaAsync),   *)
(*   - the Session Map (recordMapping, DeanonymizeText, DeleteSession),    *)
(*   - the streaming de-anonymizer (StreamingDeanonymize),                 *)
(*   - the proxy request handler (handleHTTP / MITM handler / forward),    *)
(*   - the S3-FIFO value cache (s3fifoCache).                              *)
(*                                                                         *)
(* Text is a sequence of bytes.  A byte is a one-character string; the     *)
(* bytes LF and CR are written "LF" and "CR".  A PII value (one maximal    *)
(* match of one compiled regex) is carried as a single element of the      *)
(* sequence, named by a string of Values; tokens are spelled out byte by   *)
(* byte, with their real lengths.                                          *)
(***************************************************************************)
EXTENDS Integers, Sequences, FiniteSets, TLC

(***************************************************************************)
(* Generic sequence helpers (Go strings / bytes package).                  *)
(***************************************************************************)

\* s[from..to] as a sequence, empty when from > to  (Go: s[from-1:to])
Slice(s, from, to) ==
  IF from > to THEN <<>> ELSE [i \in 1..(to - from + 1) |-> s[from + i - 1]]

\* bytes.HasPrefix / strings.HasPrefix
HasPrefix(s, p) ==
  /\ Len(p) <= Len(s)
  /\ \A i \in 1..Len(p) : s[i] = p[i]

\* the suffix of s that starts at index i
From(s, i) == Slice(s, i, Len(s))

\* strings.Contains
Contains(s, sub) == \E i \in 1..(Len(s) + 1) : HasPrefix(From(s, i), sub)

\* strings.ContainsRune
ContainsRune(s, r) == \E i \in 1..Len(s) : s[i] = r

\* strings.ReplaceAll for a non-empty old: leftmost, non-overlapping
RECURSIVE ReplaceAll(_, _, _)
ReplaceAll(s, old, new) ==
  IF Len(s) = 0 THEN <<>>
  ELSE IF HasPrefix(s, old)
       THEN new \o ReplaceAll(From(s, Len(old) + 1), old, new)
       ELSE <<s[1]>> \o ReplaceAll(From(s, 2), old, new)

\* the elements of a sequence
Range(s) == {s[i] : i \in 1..Len(s)}

\* all permutations of a finite set, as sequences (Go map iteration order)
RECURSIVE Perms(_)
Perms(S) ==
  IF S = {} THEN {<<>>}
  ELSE UNION {{<<x>> \o p : p \in Perms(S \ {x})} : x \in S}


(***************************************************************************)
(* Detector: PII kinds, patterns, tokens.                                  *)
(***************************************************************************)

\* The PII values of the model.  Each stands for one string that exactly one
\* compiled pattern matches (a maximal regex match).
Values == {"e1", "p1", "p2"}

\* PIIType: the closed enumeration of kinds
PIITypes ==
  {"email", "phone", "ssn", "creditCard", "ipAddress", "apiKey", "name",
   "address", "medical", "salary", "company", "jobTitle"}

\* strings.ToUpper(string(piiType)), byte by byte
ToUpper(piiType) ==
  CASE piiType = "email"      -> <<"E","M","A","I","L">>
    [] piiType = "phone"      -> <<"P","H","O","N","E">>
    [] piiType = "ssn"        -> <<"S","S","N">>
    [] piiType = "creditCard" -> <<"C","R","E","D","I","T","C","A","R","D">>
    [] piiType = "ipAddress"  -> <<"I","P","A","D","D","R","E","S","S">>
    [] piiType = "apiKey"     -> <<"A","P","I","K","E","Y">>
    [] piiType = "name"       -> <<"N","A","M","E">>
    [] piiType = "address"    -> <<"A","D","D","R","E","S","S">>
    [] piiType = "medical"    -> <<"M","E","D","I","C","A","L">>
    [] piiType = "salary"     -> <<"S","A","L","A","R","Y">>
    [] piiType = "company"    -> <<"C","O","M","P","A","N","Y">>
    [] piiType = "jobTitle"   -> <<"J","O","B","T","I","T","L","E">>

\* fmt.Sprintf("%x", md5.Sum(original))[:8]: the first 8 hex digits of the
\* digest.  The digest is truncated to 32 bits, so distinct values can share
\* it: p1 and p2 stand for two phone numbers whose digests collide.
Md5Hex8(original) ==
  CASE original = "e1" -> <<"c","1","6","0","f","8","c","c">>
    [] original = "p1" -> <<"7","f","4","e","1","b","0","2">>
    [] original = "p2" -> <<"7","f","4","e","1","b","0","2">>

\* the format with two more digits of the digest
TokenTextLong(piiType, h) ==
  <<"[","P","I","I","_">> \o ToUpper(piiType) \o <<"_">> \o h
     \o <<h[1], h[2]>> \o <<"]">>

\* fmt.Sprintf("[PII_%s_%s]", strings.ToUpper(string(piiType)), h)
TokenText(piiType, h) ==
  <<"[","P","I","I","_">> \o ToUpper(piiType) \o <<"_">> \o h \o <<"]">>

\* replacement(piiType, original) = "[PII_" + TYPE + "_" + 8hex + "]"
replacement(piiType, original) == TokenText(piiType, Md5Hex8(original))

\* compilePatterns: the compiled patterns in their declared order, each with
\* its kind and its confidence (in hundredths).
Patterns ==
  << [piiType |-> "email",      confidence |-> 95],
     [piiType |-> "apiKey",     confidence |-> 90],
     [piiType |-> "ssn",        confidence |-> 85],
     [piiType |-> "creditCard", confidence |-> 85],
     [piiType |-> "address",    confidence |-> 75],
     [piiType |-> "ipAddress",  confidence |-> 85],
     [piiType |-> "ipAddress",  confidence |-> 70],
     [piiType |-> "phone",      confidence |-> 65],
     [piiType |-> "address",    confidence |-> 40] >>

\* p.re matches the element b of a text: e1 is an e-mail address (pattern 1),
\* p1 and p2 are phone numbers (pattern 8).  No pattern matches a plain byte.
ReMatch(p, b) ==
  \/ p = 1 /\ b = "e1"
  \/ p = 8 /\ b \in {"p1", "p2"}

\* aiConfidenceThreshold, in hundredths (defaults(): AIConfidence 0.7)
aiThreshold == 70

\* ollamaMaxConcurrent (configuration default 1)
ollamaMaxConcurrent == 1


(***************************************************************************)
(* State.                                                                  *)
(***************************************************************************)
VARIABLES
  \* --- Anonymizer ---
  useAI,      \* a.useAI
  sessions,   \* a.sessions: sessionID -> (token -> original)
  cache,      \* a.cache (memoryCache.store): original -> token
  inflight,   \* a.inflight: the values with a warm-up in progress
  ollamaSem,  \* number of slots taken in a.ollamaSem
  calls,      \* the AnonymizeText calls in progress, one per calling goroutine
  tasks,      \* the warm-up goroutines: value -> place -> how many stand there
  emitted,    \* observer: value -> the tokens recorded for it by returned calls
  \* --- StreamingDeanonymize ---
  streams,    \* the running streams: snapshot, source, goroutine locals, output
  \* --- Proxy ---
  reqs,       \* the handlers of the proxied requests
  \* --- s3fifoCache ---
  s3fifo,     \* the s3fifoCache: mu, sizes, entries, queues, ghost ring
  backing,    \* c.backing (memoryCache.store): original -> token
  deleting,   \* key -> the goroutines "go c.backing.Delete(key)" yet to run
  ops,        \* the callers of Get, Set and Delete: where each stands
  started,    \* observer: the calls of Get, Set and Delete started so far
  hist,       \* observer: the call that returned last and what it returned
  ghosted,    \* observer: the keys evictFromS has evicted with frequency 0
  written,    \* observer: the bindings written by Set and neither evicted
              \* nor deleted since, as they were when the cache was closed
  warm,       \* observer: the values whose dispatch found them in flight,
              \* whose goroutine found no semaphore slot, whose goroutine ended
              \* and the answer the sidecar gave last
  hits,       \* observer: memory hits of a key's entry since it was inserted
              \* or promoted, counted up to freqMax
  \* --- Proxy server: dialing and routing ---
  dial,       \* the call of ssrfSafeDialContext in progress and its outcome
  srv,        \* the request ServeHTTP is handling: its route, what the client
              \* was sent, what was done with the body
  jsonCall,   \* the call of AnonymizeJSON in progress: its body and result
  \* --- mitm.CA ---
  certs,      \* ca.cache and the calls of CertFor in progress
  \* --- the token format against the patterns ---
  scan,       \* a value, the token made for it, the patterns that match them
  \* --- mitm.HandleConn ---
  tunnels,    \* the intercepted connections: where the CONNECT handler and
              \* the server's accept loop stand, the listener's done flag
  \* --- management.DomainRegistry ---
  registry    \* r.domains, the persisted file, the calls of Add and Remove

anonVars ==
  <<useAI, sessions, cache, inflight, ollamaSem, calls, tasks, emitted>>

streamVars == <<streams>>

proxyVars == <<reqs>>

netVars == <<dial, srv, jsonCall, certs, scan, tunnels, registry>>

cacheVars ==
  <<s3fifo, backing, deleting, ops, started, hist, ghosted, hits, written,
    warm, netVars>>

\* what the steps of AnonymizeText and of the warm-up goroutines leave alone
notAnon == <<streamVars, proxyVars, cacheVars>>

\* what DeleteSession leaves alone besides the Anonymizer's other fields
notSession == <<proxyVars, cacheVars>>

\* what the steps of a stream leave alone
notStream == <<anonVars, proxyVars, cacheVars>>

\* what the steps of the s3fifoCache leave alone, with and without the
\* record of the calls
notCall ==
  <<anonVars, streamVars, proxyVars, ghosted, written, warm, netVars>>

notCache == <<notCall, hist, hits>>

vars == <<anonVars, streamVars, proxyVars, cacheVars>>

(***************************************************************************)
(* Go maps as functions.                                                   *)
(***************************************************************************)
EmptyMap == [x \in {} |-> x]

MapPut(m, k, v) == [x \in (DOMAIN m) \cup {k} |-> IF x = k THEN v ELSE m[x]]

MapDel(m, k) == [x \in (DOMAIN m) \ {k} |-> m[x]]

\* m[k] of a map of maps, nil read as the empty map
Inner(m, k) == IF k \in DOMAIN m THEN m[k] ELSE EmptyMap

(***************************************************************************)
(* Inputs of the Detector.                                                 *)
(***************************************************************************)
SessionIds == {"s1", "s2"}

\* the session ids a caller may pass: "" is the empty session id
AnySessionIds == SessionIds \cup {""}

\* the texts a caller may pass to AnonymizeText
AnonTexts ==
  { <<>>,
    <<"a">>,
    <<"e1">>,
    <<"a", "p1", "a">>,
    <<"p1", "e1">>,
    <<"p1", "p2">>,
    <<"p1", "a", "p1">>,
    replacement("phone", "p1") \o <<"p1">> }

\* what the sidecar may answer to a query about value v: a list of
\* detections {original, type, confidence}; the answer is the sidecar's
SidecarReplies(v) ==
  { <<>>,
    << [original |-> v,  piiType |-> "phone", confidence |-> 90] >>,
    << [original |-> v,  piiType |-> "name",  confidence |-> 90] >>,
    << [original |-> v,  piiType |-> "phone", confidence |-> 50] >>,
    << [original |-> "", piiType |-> "phone", confidence |-> 90] >> }

\* where a warm-up goroutine can stand: before the select on the semaphore,
\* inside queryOllamaHTTP, before the deferred release of its slot, before
\* the deferred removal of its value from the in-flight set
TaskPcs == {"acquire", "query", "release", "cleanup"}

NoTasks == [v \in Values |-> [pc \in TaskPcs |-> 0]]

\* the number of warm-up goroutines alive for value v
TaskCount(v) ==
  tasks[v]["acquire"] + tasks[v]["query"] + tasks[v]["release"]
    + tasks[v]["cleanup"]

\* a goroutine for value v moves from one place to the next
TaskMove(v, from, to) ==
  [tasks EXCEPT ![v] = [@ EXCEPT ![from] = @ - 1, ![to] = @ + 1]]

IdleCall == [pc |-> "idle"]

\* the goroutines that call AnonymizeText
Callers == DOMAIN calls

\* a handler that is not running; the fields of a running one: where it
\* stands, the entry (handleHTTP or the TLS-intercept handler), sessionID,
\* resp, and as observers what the client received, whether the client went
\* away, and the steps taken so far, error statuses included (a handler that
\* has returned keeps the log of its last run)
IdleReq ==
  [pc |-> "idle", via |-> "", sid |-> "",
   resp |-> [streaming |-> FALSE, body |-> <<>>, readErr |-> "EOF"],
   client |-> <<>>, gone |-> FALSE, log |-> <<>>]


(***************************************************************************)
(* Session Map.                                                            *)
(***************************************************************************)

\* a variant of recordMapping that keeps the first entry of a session only
recordMappingFirstOnly(sessionID, token, original) ==
  IF sessionID = "" \/ sessionID \in DOMAIN sessions THEN sessions
  ELSE MapPut(sessions, sessionID, MapPut(EmptyMap, token, original))

\* a variant of recordMapping with one token map for all sessions: the pair
\* is stored under every session that exists
recordMappingShared(sessionID, token, original) ==
  IF sessionID = "" THEN sessions
  ELSE LET own == MapPut(sessions, sessionID, Inner(sessions, sessionID))
       IN  [s \in DOMAIN own |-> MapPut(own[s], token, original)]

\* recordMapping(sessionID, token, original): the session map afterwards
recordMapping(sessionID, token, original) ==
  IF sessionID = "" THEN sessions
  ELSE MapPut(sessions, sessionID,
              MapPut(Inner(sessions, sessionID), token, original))

\* the text after replacing, in the order given, every token of the list
RECURSIVE ReplaceInOrder(_, _, _)
ReplaceInOrder(text, tokenMap, order) ==
  IF order = <<>> THEN text
  ELSE ReplaceInOrder(ReplaceAll(text, order[1], <<tokenMap[order[1]]>>),
                      tokenMap, Tail(order))

\* a variant of DeanonymizeText that replaces the tokens of any one session
DeanonymizeTextAnySession(text, sessionID) ==
  IF sessionID = "" \/ text = <<>> THEN {text}
  ELSE {text} \cup
       UNION {{ReplaceInOrder(text, sessions[s], o) :
                 o \in Perms(DOMAIN sessions[s])} : s \in DOMAIN sessions}

\* DeanonymizeText(text, sessionID): the results it can return, one for each
\* order in which the range loop can visit the session's map
DeanonymizeText(text, sessionID) ==
  IF sessionID = "" \/ text = <<>> THEN {text}
  ELSE LET tokenMap == Inner(sessions, sessionID)
       IN  {ReplaceInOrder(text, tokenMap, o) : o \in Perms(DOMAIN tokenMap)}

\* DeanonymizeText(text, sessionID) is called by goroutine c and returns
\* result (the observer keeps the arguments and the result until the caller
\* has used them)
DeanonymizeTextCall(c, text, sessionID) ==
  /\ calls[c].pc = "idle"
  /\ \E result \in DeanonymizeText(text, sessionID) :
       calls' = [calls EXCEPT ![c] =
         [pc |-> "deanonymized", text |-> text, sid |-> sessionID, pat |-> 1,
          out |-> <<>>, rest |-> <<>>, tok |-> <<>>, result |-> result,
          deleted |-> FALSE, toks |-> {}]]
  /\ UNCHANGED <<useAI, sessions, cache, inflight, ollamaSem, tasks, emitted>>

\* the caller of DeanonymizeText goes on
DeanonymizeTextReturn(c) ==
  /\ calls[c].pc = "deanonymized"
  /\ calls' = [calls EXCEPT ![c] = IdleCall]
  /\ UNCHANGED <<useAI, sessions, cache, inflight, ollamaSem, tasks, emitted>>

(***************************************************************************)
(* Detector: AnonymizeText.                                                *)
(***************************************************************************)

\* the pattern's confidence sends the match to the value cache
LowConfidence(p) == useAI /\ Patterns[p].confidence < aiThreshold

\* a variant of tokenForMatch that leaves a low-confidence match in the text
\* until the sidecar has classified it
tokenForMatchDeferred(p, match) ==
  IF ~LowConfidence(p) THEN replacement(Patterns[p].piiType, match)
  ELSE IF match \in DOMAIN cache THEN cache[match]
  ELSE <<match>>

\* tokenForMatch(p, match): the token it returns (cache hit: the cached
\* token; otherwise the deterministic token of the pattern's kind)
tokenForMatch(p, match) ==
  IF ~LowConfidence(p) THEN replacement(Patterns[p].piiType, match)
  ELSE IF match \in DOMAIN cache THEN cache[match]
  ELSE replacement(Patterns[p].piiType, match)

\* tokenForMatch reaches dispatchOllamaAsync: low confidence and cache miss
CacheMiss(p, match) == LowConfidence(p) /\ match \notin DOMAIN cache

\* index of the leftmost match of pattern p in text, 0 when there is none
FirstMatch(p, text) ==
  IF \E i \in 1..Len(text) : ReMatch(p, text[i])
  THEN CHOOSE i \in 1..Len(text) :
         /\ ReMatch(p, text[i])
         /\ \A j \in 1..(i - 1) : ~ReMatch(p, text[j])
  ELSE 0

\* The loop over a.patterns between two matches: ReplaceAllStringFunc of
\* pattern pat has produced out and still has rest to scan.  A pattern
\* without a further match ends its pass and the next pattern starts on the
\* result; after the last pattern the call has its result.
RECURSIVE Scan(_, _, _, _)
Scan(call, pat, out, rest) ==
  IF FirstMatch(pat, rest) # 0
  THEN [call EXCEPT !.pc = "scan", !.pat = pat, !.out = out, !.rest = rest]
  ELSE IF pat = Len(Patterns)
  THEN [call EXCEPT !.pc = "done", !.pat = pat, !.out = <<>>, !.rest = <<>>,
                    !.result = out \o rest]
  ELSE Scan(call, pat + 1, <<>>, out \o rest)

\* the call after the callback of ReplaceAllStringFunc returned token for
\* the leftmost match of the current pattern (toks: the observer's list of
\* the pairs the call has passed to recordMapping)
Replaced(call, token) ==
  LET i == FirstMatch(call.pat, call.rest)
  IN  Scan([call EXCEPT !.tok = <<>>,
                        !.toks = @ \cup {<<token, call.rest[i]>>}], call.pat,
           call.out \o Slice(call.rest, 1, i - 1) \o token,
           From(call.rest, i + 1))

\* AnonymizeText(text, sessionID) is entered by goroutine c
AnonymizeTextCall(c, text, sessionID) ==
  /\ calls[c].pc = "idle"
  /\ calls' = [calls EXCEPT ![c] =
        IF text = <<>>
        THEN [pc |-> "done", text |-> text, sid |-> sessionID, pat |-> 1,
              out |-> <<>>, rest |-> <<>>, tok |-> <<>>, result |-> text,
              deleted |-> FALSE, toks |-> {}]
        ELSE Scan([pc |-> "scan", text |-> text, sid |-> sessionID, pat |-> 1,
                   out |-> <<>>, rest |-> <<>>, tok |-> <<>>, result |-> <<>>,
                   deleted |-> FALSE, toks |-> {}],
                  1, <<>>, text)]
  /\ UNCHANGED <<useAI, sessions, cache, inflight, ollamaSem, tasks, emitted>>

\* The callback for the next match: tokenForMatch up to its return or up to
\* the call of dispatchOllamaAsync, then recordMapping.
AnonymizeTextMatch(c) ==
  /\ calls[c].pc = "scan"
  /\ LET call  == calls[c]
         match == call.rest[FirstMatch(call.pat, call.rest)]
         token == tokenForMatch(call.pat, match)
     IN  IF CacheMiss(call.pat, match)
         THEN /\ calls' = [calls EXCEPT ![c] =
                              [call EXCEPT !.pc = "dispatch", !.tok = token]]
              /\ UNCHANGED sessions
         ELSE /\ calls' = [calls EXCEPT ![c] = Replaced(call, token)]
              /\ sessions' = recordMapping(call.sid, token, match)
  /\ UNCHANGED <<useAI, cache, inflight, ollamaSem, tasks, emitted>>

\* a variant of the in-flight test that starts a goroutine for every miss
AlreadyInFlightNever(original) == FALSE

\* dispatchOllamaAsync: the test under inflightMu
AlreadyInFlight(original) == original \in inflight

\* dispatchOllamaAsync(match) on a cache miss (the in-flight test and insert
\* under inflightMu, the go statement), then tokenForMatch returns the
\* fallback token and recordMapping stores it.
AnonymizeTextDispatch(c) ==
  /\ calls[c].pc = "dispatch"
  /\ LET call  == calls[c]
         match == call.rest[FirstMatch(call.pat, call.rest)]
     IN  /\ IF AlreadyInFlight(match)
            THEN UNCHANGED <<inflight, tasks>>
            ELSE /\ inflight' = inflight \cup {match}
                 /\ tasks' = [tasks EXCEPT ![match]["acquire"] = @ + 1]
         /\ calls' = [calls EXCEPT ![c] = Replaced(call, call.tok)]
         /\ sessions' = recordMapping(call.sid, call.tok, match)
  /\ UNCHANGED <<useAI, cache, ollamaSem, emitted>>

\* AnonymizeText returns to its caller (the observer keeps the tokens the
\* call recorded for each value)
AnonymizeTextReturn(c) ==
  /\ calls[c].pc = "done"
  /\ calls' = [calls EXCEPT ![c] = IdleCall]
  /\ emitted' = [v \in Values |->
                   emitted[v] \cup {pr[1] : pr \in {q \in calls[c].toks : q[2] = v}}]
  /\ UNCHANGED <<useAI, sessions, cache, inflight, ollamaSem, tasks>>

\* DeleteSession(sessionID), by any goroutine
DeleteSession(sessionID) ==
  /\ sessionID # ""
  /\ sessions' = MapDel(sessions, sessionID)
  /\ calls' = [c \in DOMAIN calls |->
                 IF calls[c].pc # "idle" /\ calls[c].sid = sessionID
                 THEN [calls[c] EXCEPT !.deleted = TRUE]
                 ELSE calls[c]]
  /\ streams' = [i \in DOMAIN streams |->
                   IF /\ streams[i].pc \in {"run", "pass"}
                      /\ streams[i].sid = sessionID
                      /\ streams[i].deleted = "no"
                   THEN [streams[i] EXCEPT !.deleted =
                           IF streams[i].pos = 0 THEN "unread" ELSE "midway"]
                   ELSE streams[i]]
  /\ UNCHANGED <<useAI, cache, inflight, ollamaSem, tasks, emitted>>

(***************************************************************************)
(* Detector: the warm-up goroutine of dispatchOllamaAsync.                 *)
(***************************************************************************)

\* a variant of the select that waits for a slot instead of giving up
TaskAcquireBlocking(v) ==
  /\ tasks[v]["acquire"] > 0
  /\ ollamaSem < ollamaMaxConcurrent
  /\ ollamaSem' = ollamaSem + 1
  /\ tasks' = TaskMove(v, "acquire", "query")
  /\ UNCHANGED <<useAI, sessions, cache, inflight, calls, emitted>>

\* select on the semaphore: a slot is taken, or the task is dropped
TaskAcquire(v) ==
  /\ tasks[v]["acquire"] > 0
  /\ IF ollamaSem < ollamaMaxConcurrent
     THEN /\ ollamaSem' = ollamaSem + 1
          /\ tasks' = TaskMove(v, "acquire", "query")
     ELSE /\ tasks' = TaskMove(v, "acquire", "cleanup")
          /\ UNCHANGED ollamaSem
  /\ UNCHANGED <<useAI, sessions, cache, inflight, calls, emitted>>

\* a variant of the loop that stores every detection that has an original,
\* whatever its confidence
RECURSIVE StoreDetectionsAny(_, _)
StoreDetectionsAny(c, dets) ==
  IF dets = <<>> THEN c
  ELSE LET d == Head(dets)
       IN  StoreDetectionsAny(
             IF d.original # ""
             THEN MapPut(c, d.original, replacement(d.piiType, d.original))
             ELSE c,
             Tail(dets))

\* the loop over the detections: a.cache.Set for every detection that has
\* an original and meets the threshold; the cache afterwards
RECURSIVE StoreDetections(_, _)
StoreDetections(c, dets) ==
  IF dets = <<>> THEN c
  ELSE LET d == Head(dets)
       IN  StoreDetections(
             IF d.original # "" /\ d.confidence >= aiThreshold
             THEN MapPut(c, d.original, replacement(d.piiType, d.original))
             ELSE c,
             Tail(dets))

\* queryOllamaHTTP(v) returns an error, or it returns the parsed detections
\* and the loop stores them
TaskQuery(v) ==
  /\ tasks[v]["query"] > 0
  /\ \/ UNCHANGED cache
     \/ \E dets \in SidecarReplies(v) : cache' = StoreDetections(cache, dets)
  /\ tasks' = TaskMove(v, "query", "release")
  /\ UNCHANGED <<useAI, sessions, inflight, ollamaSem, calls, emitted>>

\* The answer of the sidecar's HTTP endpoint to one query: how the exchange
\* ends ("ok", or the error of http.Client.Do or of io.ReadAll; the timeout of
\* 60 seconds is one such error), whether the body is a JSON object, and the
\* text of its "response" field.  The text is a sequence of items: "[" and
\* "]", a JSON object that is a detection ("d"), and anything else ("x").
TextItem(sym) ==
  [sym |-> sym, original |-> "", piiType |-> "", confidence |-> 0]

DetectionItem(d) ==
  [sym |-> "d", original |-> d.original, piiType |-> d.piiType,
   confidence |-> d.confidence]

\* the text of a JSON array of the detections dets
ArrayText(dets) ==
  <<TextItem("[")>> \o [i \in 1..Len(dets) |-> DetectionItem(dets[i])]
    \o <<TextItem("]")>>

NoResponse == [exchange |-> "none", json |-> FALSE, text |-> <<>>]

\* strings.Index and strings.LastIndex of a one-byte string, counted from 1
\* (0: not found)
IndexOfItem(raw, sym) ==
  IF \E i \in 1..Len(raw) : raw[i].sym = sym
  THEN CHOOSE i \in 1..Len(raw) :
         raw[i].sym = sym /\ \A j \in 1..(i - 1) : raw[j].sym # sym
  ELSE 0

LastIndexOfItem(raw, sym) ==
  IF \E i \in 1..Len(raw) : raw[i].sym = sym
  THEN CHOOSE i \in 1..Len(raw) :
         raw[i].sym = sym /\ \A j \in (i + 1)..Len(raw) : raw[j].sym # sym
  ELSE 0

\* a variant of queryOllamaHTTP that returns the detections it can find in
\* the text and never an error
queryOllamaHTTPLenient(resp) ==
  LET found == SelectSeq(resp.text, LAMBDA it : it.sym = "d")
  IN  [detections |-> [i \in 1..Len(found) |->
                         [original   |-> found[i].original,
                          piiType    |-> found[i].piiType,
                          confidence |-> found[i].confidence]],
       err |-> ""]

\* queryOllamaHTTP, given the answer resp of the endpoint: the detections and
\* the error it returns ("" for nil)
queryOllamaHTTP(resp) ==
  IF resp.exchange # "ok"
  THEN [detections |-> <<>>, err |-> resp.exchange]
  ELSE IF ~resp.json
  THEN [detections |-> <<>>, err |-> "ollama response parse error"]
  ELSE LET raw   == resp.text
           start == IndexOfItem(raw, "[")
           end   == LastIndexOfItem(raw, "]")
       IN  IF start = 0 \/ end = 0 \/ end <= start
           THEN [detections |-> <<>>, err |-> "no JSON array in ollama response"]
           ELSE LET inner == Slice(raw, start + 1, end - 1)
                IN  IF \E i \in 1..Len(inner) : inner[i].sym # "d"
                    THEN [detections |-> <<>>, err |-> "detection parse error"]
                    ELSE [detections |->
                            [i \in 1..Len(inner) |->
                               [original   |-> inner[i].original,
                                piiType    |-> inner[i].piiType,
                                confidence |-> inner[i].confidence]],
                          err |-> ""]

\* the goroutine for v after the semaphore: queryOllamaHTTP with the answer
\* resp of the endpoint; on an error the goroutine logs and returns, else the
\* loop stores the detections
TaskQueryHTTP(v, resp) ==
  /\ tasks[v]["query"] > 0
  /\ LET r == queryOllamaHTTP(resp)
     IN  cache' = IF r.err # "" THEN cache
                  ELSE StoreDetections(cache, r.detections)
  /\ tasks' = TaskMove(v, "query", "release")
  /\ UNCHANGED <<useAI, sessions, inflight, ollamaSem, calls, emitted>>

\* deferred: <-a.ollamaSem
TaskRelease(v) ==
  /\ tasks[v]["release"] > 0
  /\ ollamaSem' = ollamaSem - 1
  /\ tasks' = TaskMove(v, "release", "cleanup")
  /\ UNCHANGED <<useAI, sessions, cache, inflight, calls, emitted>>

\* a variant of the goroutine's end that leaves the value in flight
TaskCleanupKeep(v) ==
  /\ tasks[v]["cleanup"] > 0
  /\ tasks' = [tasks EXCEPT ![v]["cleanup"] = @ - 1]
  /\ UNCHANGED <<useAI, sessions, cache, inflight, ollamaSem, calls, emitted>>

\* deferred: delete(a.inflight, original); the goroutine ends
TaskCleanup(v) ==
  /\ tasks[v]["cleanup"] > 0
  /\ inflight' = inflight \ {v}
  /\ tasks' = [tasks EXCEPT ![v]["cleanup"] = @ - 1]
  /\ UNCHANGED <<useAI, sessions, cache, ollamaSem, calls, emitted>>

(***************************************************************************)
(* StreamingDeanonymize: the replacer, the SSE events, the line processor. *)
(***************************************************************************)

\* strings.NewReplacer(pairs...).Replace: one pass from left to right; the
\* token found at a position is replaced by its original and the scan goes on
\* behind it.  (Tokens end in their only "]", so none is a prefix of another
\* and at most one is found at a position.)
RECURSIVE Replace(_, _)
Replace(tokenMap, s) ==
  IF Len(s) = 0 THEN <<>>
  ELSE LET here == {tok \in DOMAIN tokenMap : HasPrefix(s, tok)}
       IN  IF here # {}
           THEN LET tok == CHOOSE t \in here : TRUE
                IN  <<tokenMap[tok]>> \o Replace(tokenMap, From(s, Len(tok) + 1))
           ELSE <<s[1]>> \o Replace(tokenMap, From(s, 2))

\* "data: "
DataPrefix == <<"d", "a", "t", "a", ":", " ">>

\* JSON objects are written as an opening element, the bytes of the one string
\* the object carries, and a closing element (the quote and the braces behind
\* the string).  The text bytes used here need no JSON escape.
\*   "{T"  {"type":"content_block_delta","index":0,"delta":{"type":"text_delta","text":"
\*   "{K"  the same with "type":"thinking_delta"
\*   "{O"  any other object, e.g. {"type":"ping","note":"  or  {"content":"
\*   "{t"  json.Marshal(envelope) of a text_delta: "type" and "delta" only
\*   "{k"  json.Marshal(envelope) of a thinking_delta
\*   "{s"  json.Marshal(synth): the synthetic text_delta with "index":1
JsonOpens == {"{T", "{K", "{O", "{t", "{k", "{s"}

JsonClose == "}"

\* bytes that cannot stand inside a JSON string
NotInJsonString == JsonOpens \cup {JsonClose, "LF", "CR"}

\* json.Unmarshal(payload, &envelope) and the test isDeltaText
Unmarshal(payload) ==
  IF /\ Len(payload) >= 2
     /\ payload[1] \in JsonOpens
     /\ payload[Len(payload)] = JsonClose
     /\ \A i \in 2..(Len(payload) - 1) : payload[i] \notin NotInJsonString
  THEN [err         |-> FALSE,
        isDeltaText |-> payload[1] \in {"{T", "{K", "{t", "{k", "{s"},
        deltaType   |-> IF payload[1] \in {"{K", "{k"} THEN "thinking_delta"
                        ELSE "text_delta",
        text        |-> Slice(payload, 2, Len(payload) - 1)]
  ELSE [err |-> TRUE, isDeltaText |-> FALSE, deltaType |-> "", text |-> <<>>]

\* json.Marshal(envelope) with envelope.Delta.Text = replaced
Marshal(deltaType, replaced) ==
  <<IF deltaType = "thinking_delta" THEN "{k" ELSE "{t">> \o replaced
    \o <<JsonClose>>

\* the synthetic text_delta event that carries flushed text, with its "\n\n"
Synthetic(tokenMap, accum) ==
  LET flushed == Replace(tokenMap, accum)
  IN  IF flushed = <<>> THEN <<>>
      ELSE DataPrefix \o <<"{s">> \o flushed \o <<JsonClose, "LF", "LF">>

tokenSuffixLen == 26

\* flushUpTo that looks for an open "[" in the whole accumulated text
FlushUpToAnyOpen(accumulated) ==
  LET n == Len(accumulated)
  IN  IF n > tokenSuffixLen
      THEN LET cutAt == n - tokenSuffixLen
               opens == {j \in 1..n : accumulated[j] = "["}
           IN  IF opens = {} THEN cutAt
               ELSE LET j == CHOOSE x \in opens : \A y \in opens : y <= x
                    IN  IF ContainsRune(From(accumulated, j), "]")
                        THEN cutAt
                        ELSE j - 1
      ELSE 0

\* flushUpTo: how many leading bytes of the accumulated text are emitted now
FlushUpTo(accumulated) ==
  LET n == Len(accumulated)
  IN  IF n > tokenSuffixLen
      THEN LET cutAt == n - tokenSuffixLen
               opens == {j \in (cutAt + 1)..n : accumulated[j] = "["}
           IN  IF opens = {} THEN cutAt
               ELSE LET j == CHOOSE x \in opens : \A y \in opens : y <= x
                    IN  IF ContainsRune(From(accumulated, j), "]")
                        THEN cutAt
                        ELSE j - 1
      ELSE 0

\* processLine(line): st holds the goroutine's textAccum and what it wrote
processLine(tokenMap, st, line) ==
  IF Len(line) = 0 \/ line[1] = ":"
  THEN [st EXCEPT !.out = @ \o line \o <<"LF">>]
  ELSE IF ~HasPrefix(line, DataPrefix)
  THEN [st EXCEPT !.out = @ \o Replace(tokenMap, line) \o <<"LF">>]
  ELSE LET payload  == From(line, Len(DataPrefix) + 1)
           envelope == Unmarshal(payload)
       IN  IF envelope.err
           THEN [st EXCEPT !.out = @ \o DataPrefix \o Replace(tokenMap, payload)
                                     \o <<"LF">>]
           ELSE IF envelope.isDeltaText
           THEN LET accumulated == st.textAccum \o envelope.text
                    flushUpTo   == FlushUpTo(accumulated)
                    replaced    == Replace(tokenMap,
                                           Slice(accumulated, 1, flushUpTo))
                IN  [st EXCEPT
                       !.out = @ \o DataPrefix
                                 \o Marshal(envelope.deltaType, replaced)
                                 \o <<"LF">>,
                       !.textAccum = From(accumulated, flushUpTo + 1)]
           ELSE [st EXCEPT
                   !.out = @ \o Synthetic(tokenMap, st.textAccum)
                             \o Replace(tokenMap, line) \o <<"LF">>,
                   !.textAccum = <<>>]

\* the body of the loop over buf[:n], for one byte
ProcessByte(tokenMap, st, b) ==
  IF b = "LF"
  THEN LET lineBuf == st.lineBuf
           line == IF Len(lineBuf) > 0 /\ lineBuf[Len(lineBuf)] = "CR"
                   THEN Slice(lineBuf, 1, Len(lineBuf) - 1)
                   ELSE lineBuf
       IN  [processLine(tokenMap, st, line) EXCEPT !.lineBuf = <<>>]
  ELSE [st EXCEPT !.lineBuf = Append(@, b)]

\* the loop over buf[:n]
RECURSIVE ProcessBytes(_, _, _)
ProcessBytes(tokenMap, st, bytes) ==
  IF Len(bytes) = 0 THEN st
  ELSE IF Len(bytes) = 1 THEN ProcessByte(tokenMap, st, bytes[1])
  ELSE LET half == Len(bytes) \div 2
           mid  == ProcessBytes(tokenMap, st, Slice(bytes, 1, half))
       IN  \* (mid is evaluated before the second half is entered)
           IF mid.out = mid.out
           THEN ProcessBytes(tokenMap, mid, From(bytes, half + 1))
           ELSE mid

\* a variant of the end of the stream that drops the partial last line
FlushAtEndAccumOnly(tokenMap, st) ==
  [st EXCEPT !.out = @ \o Synthetic(tokenMap, st.textAccum),
             !.lineBuf = <<>>,
             !.textAccum = <<>>]

\* readErr != nil: the partial line, then the accumulator, are written
FlushAtEnd(tokenMap, st) ==
  [st EXCEPT !.out = @ \o Replace(tokenMap, st.lineBuf)
                       \o Synthetic(tokenMap, st.textAccum),
             !.lineBuf = <<>>,
             !.textAccum = <<>>]

\* a stream that has not been started
IdleStream == [pc |-> "idle"]

\* the streams, one per call of StreamingDeanonymize that may be running
Streams == DOMAIN streams

\* the token map the goroutine's replacer was built from: the snapshot
replacerMapLive(i) == Inner(sessions, streams[i].sid)

replacerMap(i) == streams[i].tokenMap

\* StreamingDeanonymize(src, sessionID) up to its return.  (deleted observes
\* a DeleteSession of the session while the stream runs: "unread" when no byte
\* of the source had been read by then, "midway" otherwise.)  src delivers the
\* bytes body and then fails with readErr ("EOF" or "error").  With an empty
\* snapshot src itself is returned (pc "pass"), else the pipe reader (pc "run").
StreamingDeanonymize(i, body, readErr, sessionID) ==
  /\ streams[i].pc = "idle"
  /\ LET tokenMap == Inner(sessions, sessionID)
     IN  streams' = [streams EXCEPT ![i] =
           [pc        |-> IF DOMAIN tokenMap = {} THEN "pass" ELSE "run",
            sid       |-> sessionID,
            tokenMap  |-> tokenMap,
            src       |-> body,
            readErr   |-> readErr,
            pos       |-> 0,
            lineBuf   |-> <<>>,
            textAccum |-> <<>>,
            out       |-> <<>>,
            pipeErr   |-> FALSE,
            srcClosed |-> FALSE,
            deleted   |-> "no"]]

\* a Read whose line buffer does not outlive the call: the bytes of a line
\* begun in an earlier Read are lost
StreamReadFreshLine(i, n) ==
  /\ streams[i].pc \in {"run", "pass"}
  /\ n >= 1
  /\ streams[i].pos + n <= Len(streams[i].src)
  /\ LET st    == streams[i]
         bytes == Slice(st.src, st.pos + 1, st.pos + n)
     IN  streams' = [streams EXCEPT ![i] =
           IF st.pc = "pass"
           THEN [st EXCEPT !.pos = @ + n, !.out = @ \o bytes]
           ELSE [ProcessBytes(st.tokenMap, [st EXCEPT !.lineBuf = <<>>], bytes)
                   EXCEPT !.pos = @ + n]]

\* src.Read returns the next n bytes.  The goroutine runs them through the
\* line processor; io.Pipe hands every Write to the consumer before the Write
\* returns, so out is what the consumer has read.  In pass mode the consumer
\* reads src itself.
StreamRead(i, n) ==
  /\ streams[i].pc \in {"run", "pass"}
  /\ n >= 1
  /\ streams[i].pos + n <= Len(streams[i].src)
  /\ LET st    == streams[i]
         bytes == Slice(st.src, st.pos + 1, st.pos + n)
     IN  streams' = [streams EXCEPT ![i] =
           IF st.pc = "pass"
           THEN [st EXCEPT !.pos = @ + n, !.out = @ \o bytes]
           ELSE [ProcessBytes(replacerMap(i), st, bytes) EXCEPT !.pos = @ + n]]

\* a variant of the end of the goroutine that closes the pipe before it
\* writes the pending bytes, which are then written to nobody
StreamEndCloseFirst(tokenMap, st) ==
  [st EXCEPT !.pc = "closed", !.pipeErr = (st.readErr # "EOF"),
             !.srcClosed = TRUE, !.lineBuf = <<>>, !.textAccum = <<>>]

\* the end of the goroutine: the pending bytes are written, the pipe is
\* closed (with the error unless it is io.EOF; the deferred pw.Close), the
\* deferred src.Close runs
StreamEnd(tokenMap, st) ==
  [FlushAtEnd(tokenMap, st) EXCEPT
     !.pc = "closed", !.pipeErr = (st.readErr # "EOF"), !.srcClosed = TRUE]

\* src.Read returns readErr: the pending bytes are flushed, the pipe is closed
\* (with the error unless it is io.EOF), the goroutine returns.
StreamReadErr(i) ==
  /\ streams[i].pc \in {"run", "pass"}
  /\ streams[i].pos = Len(streams[i].src)
  /\ LET st == streams[i]
     IN  streams' = [streams EXCEPT ![i] =
           IF st.pc = "pass"
           THEN [st EXCEPT !.pc = "closed", !.pipeErr = (st.readErr # "EOF")]
           ELSE StreamEnd(replacerMap(i), st)]

\* the consumer is done with the closed stream
StreamDone(i) ==
  /\ streams[i].pc = "closed"
  /\ streams' = [streams EXCEPT ![i] = IdleStream]

(***************************************************************************)
(* Proxy server: ssrfSafeDialContext.  An IP address is the sequence of    *)
(* its groups: four bytes for IPv4, eight 16-bit groups for IPv6.  A host  *)
(* is a record with a name or with a literal IP; an address is a host and  *)
(* a port, and the port "" stands for an address without ":port".          *)
(***************************************************************************)

\* net.IP.To4: the four bytes of an IPv4 address, also of an IPv4-mapped
\* IPv6 address; <<>> (nil) for any other address
To4(ip) ==
  IF Len(ip) = 4 THEN ip
  ELSE IF (\A i \in 1..5 : ip[i] = 0) /\ ip[6] = 65535
  THEN <<ip[7] \div 256, ip[7] % 256, ip[8] \div 256, ip[8] % 256>>
  ELSE <<>>

\* the bits of group i that a mask of the given length covers
MaskBits(bits, i, width) ==
  IF bits - (i - 1) * width <= 0 THEN 0
  ELSE IF bits - (i - 1) * width >= width THEN width
  ELSE bits - (i - 1) * width

\* net.IPNet.Contains
IPNetContains(n, ip) ==
  LET x     == IF To4(ip) # <<>> THEN To4(ip) ELSE ip
      width == IF Len(n.ip) = 4 THEN 8 ELSE 16
  IN  /\ Len(x) = Len(n.ip)
      /\ \A i \in 1..Len(x) :
           x[i] \div 2^(width - MaskBits(n.bits, i, width))
             = n.ip[i] \div 2^(width - MaskBits(n.bits, i, width))

\* init(): the private prefixes
privateNetworks ==
  << [ip |-> <<10, 0, 0, 0>>, bits |-> 8],
     [ip |-> <<172, 16, 0, 0>>, bits |-> 12],
     [ip |-> <<192, 168, 0, 0>>, bits |-> 16],
     [ip |-> <<127, 0, 0, 0>>, bits |-> 8],
     [ip |-> <<169, 254, 0, 0>>, bits |-> 16],
     [ip |-> <<0, 0, 0, 0, 0, 0, 0, 1>>, bits |-> 128],
     [ip |-> <<64512, 0, 0, 0, 0, 0, 0, 0>>, bits |-> 7],
     [ip |-> <<65152, 0, 0, 0, 0, 0, 0, 0>>, bits |-> 10] >>

isPrivateIP(ip) ==
  \E i \in 1..Len(privateNetworks) : IPNetContains(privateNetworks[i], ip)

\* addresses inside the private prefixes: 10.0.0.52, 172.31.255.1,
\* 192.168.1.1, 127.0.0.1, 169.254.1.1, ::1, fd00::1, febf::1,
\* ::ffff:10.0.0.1
PrivateIPs ==
  { <<10, 0, 0, 52>>, <<172, 31, 255, 1>>, <<192, 168, 1, 1>>,
    <<127, 0, 0, 1>>, <<169, 254, 1, 1>>,
    <<0, 0, 0, 0, 0, 0, 0, 1>>, <<64768, 0, 0, 0, 0, 0, 0, 1>>,
    <<65215, 0, 0, 0, 0, 0, 0, 1>>, <<0, 0, 0, 0, 0, 65535, 2560, 1>> }

\* addresses outside them: 8.8.8.8, 172.32.0.1, 11.0.0.1, 2001:db8::1,
\* fec0::1, ::2, ::ffff:8.8.8.8
PublicIPs ==
  { <<8, 8, 8, 8>>, <<172, 32, 0, 1>>, <<11, 0, 0, 1>>,
    <<8193, 3512, 0, 0, 0, 0, 0, 1>>, <<65216, 0, 0, 0, 0, 0, 0, 1>>,
    <<0, 0, 0, 0, 0, 0, 0, 2>>, <<0, 0, 0, 0, 0, 65535, 2056, 2056>> }

HostNames == {"example.com", "api.ai.test"}

HostOfName(name) == [name |-> name, ip |-> <<>>]

HostOfIP(ip) == [name |-> "", ip |-> ip]

\* the destinations of a dial
DialHosts ==
  {HostOfName(n) : n \in HostNames}
    \cup {HostOfIP(ip) : ip \in PrivateIPs \cup PublicIPs}

DialAddrs == {[host |-> h, port |-> p] : h \in DialHosts, p \in {"", "443"}}

\* the addresses a name can resolve to
ResolvedIPs ==
  { <<8, 8, 8, 8>>, <<8193, 3512, 0, 0, 0, 0, 0, 1>>,
    <<10, 0, 0, 52>>, <<65215, 0, 0, 0, 0, 0, 0, 1>> }

\* the most addresses a lookup returns
MaxResolved == 2

RECURSIVE SeqsUpTo(_, _)
SeqsUpTo(S, n) ==
  IF n = 0 THEN {<<>>}
  ELSE SeqsUpTo(S, n - 1)
         \cup {Append(q, x) : q \in {r \in SeqsUpTo(S, n - 1) : Len(r) = n - 1},
                              x \in S}

\* net.DefaultResolver.LookupIPAddr(ctx, host): a literal IP is returned as
\* it is; a name gives an error or the addresses the resolver answers with
LookupIPAddr(host) ==
  IF host.name = ""
  THEN {[err |-> FALSE, ips |-> <<host.ip>>]}
  ELSE {[err |-> TRUE, ips |-> <<>>]}
         \cup {[err |-> FALSE, ips |-> q] : q \in SeqsUpTo(ResolvedIPs, MaxResolved)}

\* no call of the dial function in progress; of a call: where it stands, its
\* addr, the resolved addresses, its error, the address handed to
\* d.DialContext, and the addresses the dialer has opened a connection to
IdleDial ==
  [pc |-> "idle", addr |-> [host |-> HostOfName(""), port |-> ""],
   ips |-> <<>>, err |-> "", target |-> <<>>, opened |-> <<>>]

\* the dial function is called; net.SplitHostPort(addr) fails for an address
\* without a port, and so does the d.DialContext(ctx, network, addr) that is
\* returned in that case, before it connects
DialCall(addr) ==
  /\ dial.pc = "idle"
  /\ dial' = IF addr.port = ""
             THEN [IdleDial EXCEPT !.pc = "done", !.addr = addr,
                                   !.err = "missing port",
                                   !.target = <<addr>>]
             ELSE [IdleDial EXCEPT !.pc = "lookup", !.addr = addr]

\* LookupIPAddr returns
DialLookup(res) ==
  /\ dial.pc = "lookup"
  /\ res \in LookupIPAddr(dial.addr.host)
  /\ dial' = IF res.err
             THEN [dial EXCEPT !.pc = "done", !.err = "lookup"]
             ELSE [dial EXCEPT !.pc = "check", !.ips = res.ips]

\* a variant of the loop over ips that looks at the first address only
DialCheckFirstOnly ==
  /\ dial.pc = "check"
  /\ dial' =
       IF Len(dial.ips) = 0
       THEN [dial EXCEPT !.pc = "done", !.err = "no addresses"]
       ELSE IF isPrivateIP(dial.ips[1])
       THEN [dial EXCEPT !.pc = "done", !.err = "private"]
       ELSE [dial EXCEPT !.pc = "dialing",
               !.target = <<[host |-> HostOfIP(dial.ips[1]),
                             port |-> dial.addr.port]>>]

\* the loop over ips, the test for no address, and the call of
\* d.DialContext with the first address
DialCheck ==
  /\ dial.pc = "check"
  /\ dial' =
       IF \E i \in 1..Len(dial.ips) : isPrivateIP(dial.ips[i])
       THEN [dial EXCEPT !.pc = "done", !.err = "private"]
       ELSE IF Len(dial.ips) = 0
       THEN [dial EXCEPT !.pc = "done", !.err = "no addresses"]
       ELSE [dial EXCEPT !.pc = "dialing",
               !.target = <<[host |-> HostOfIP(dial.ips[1]),
                             port |-> dial.addr.port]>>]

\* d.DialContext opens the TCP connection to its target, or fails to
DialConnect(ok) ==
  /\ dial.pc = "dialing"
  /\ dial' = [dial EXCEPT !.pc = "done",
                          !.opened = @ \o dial.target,
                          !.err = IF ok THEN "" ELSE "connect"]

\* the caller has the result
DialReturn ==
  /\ dial.pc = "done"
  /\ dial' = IdleDial

(***************************************************************************)
(* Proxy server: ServeHTTP, handleTunnel, the opaque tunnel, the handler   *)
(* of an intercepted connection, handleHTTP and forward, for one request   *)
(* at a time.  A domain is carried by its name; its labels and the path    *)
(* are sequences, so that strings.HasPrefix is computed.                   *)
(***************************************************************************)

\* the labels of the host names of the model
Labels(name) ==
  CASE name = "api.ai.test"          -> <<"api", ".", "ai", ".", "test">>
    [] name = "v2.api.ai.test"       ->
         <<"v2", ".", "api", ".", "ai", ".", "test">>
    [] name = "auth.ai.test"         -> <<"auth", ".", "ai", ".", "test">>
    [] name = "idp.ai.test"          -> <<"idp", ".", "ai", ".", "test">>
    [] name = "example.com"          -> <<"example", ".", "com">>
    [] name = "accounts.example.com" -> <<"accounts", ".", "example", ".", "com">>
    [] OTHER                         -> <<name>>

\* s.aiDomains (the registry), s.authDomains, s.authPaths
aiDomains == {"api.ai.test", "auth.ai.test", "idp.ai.test"}

authDomains == {"idp.ai.test"}

authPaths == { <<"/", "oauth">> }

\* the hosts a client asks for
ServeNames ==
  {"api.ai.test", "v2.api.ai.test", "auth.ai.test", "idp.ai.test",
   "example.com", "accounts.example.com"}

ServeHosts ==
  {HostOfName(n) : n \in ServeNames}
    \cup {HostOfIP(ip) : ip \in {<<10, 0, 0, 52>>, <<8, 8, 8, 8>>,
                                  <<0, 0, 0, 0, 0, 0, 0, 1>>}}

\* request paths: /v1/messages, /oauth/token, /oauthx
ServePaths ==
  { <<"/", "v1", "/", "messages">>, <<"/", "oauth", "/", "token">>,
    <<"/", "oauth", "x">> }

\* maxRequestBody = 50 << 20 bytes
maxRequestBody == 52428800

\* request bodies: none (r.Body == nil or ContentLength 0), or one of len
\* bytes, with or without PII, whose read may fail
ServeBodies ==
  {[len |-> 0, pii |-> FALSE, readErr |-> FALSE]}
    \cup {[len |-> n, pii |-> b, readErr |-> FALSE] :
            n \in {1, maxRequestBody, maxRequestBody + 1}, b \in BOOLEAN}
    \cup {[len |-> 1, pii |-> TRUE, readErr |-> TRUE]}

\* the domain that handleTunnel and handleHTTP match: the host without a port
\* (a literal IP is no name of a registry or set)
Domain(addr) == addr.host.name

\* isAuthRequest(domain, path)
isAuthRequest(domain, path) ==
  \/ domain \in authDomains
  \/ \E prefix \in {"auth", "login", "accounts", "sso", "oauth"} :
       HasPrefix(Labels(domain), <<prefix, ".">>)
  \/ \E authPath \in authPaths : HasPrefix(path, authPath)

\* isPrivateHost(host): literal IPs only
isPrivateHost(addr) == addr.host.name = "" /\ isPrivateIP(addr.host.ip)

\* no request; of a request: where its handler stands, ca (s.ca != nil),
\* hijack (the ResponseWriter is a Hijacker), method, addr (r.Host), path,
\* body, the route taken, isAuth, what was written to the client, whether
\* the Detector ran, the session id, whether the session has entries, how
\* the body was forwarded, whether the response went through
\* deanonymizeResponseBody with a session, and the calls of the dial function
IdleSrv ==
  [pc |-> "idle", ca |-> FALSE, hijack |-> FALSE, method |-> "",
   addr |-> [host |-> HostOfName(""), port |-> ""], path |-> <<>>,
   body |-> [len |-> 0, pii |-> FALSE, readErr |-> FALSE],
   route |-> "", isAuth |-> FALSE, client |-> <<>>, detector |-> FALSE,
   sid |-> "", session |-> FALSE, forwarded |-> "", deanon |-> FALSE,
   refused |-> FALSE, dials |-> 0]

\* http.Error(w, msg, code), w.WriteHeader(code)
Status(code, msg) == [code |-> code, msg |-> msg]

\* ServeHTTP: a request arrives
ServeHTTP(ca, hijack, method, addr, path, body) ==
  /\ srv.pc = "idle"
  /\ dial.pc = "idle"
  /\ srv' = [IdleSrv EXCEPT
               !.pc = IF method = "CONNECT" THEN "handleTunnel"
                      ELSE "handleHTTP",
               !.ca = ca, !.hijack = hijack, !.method = method,
               !.addr = addr, !.path = path, !.body = body]
  /\ UNCHANGED dial

\* a variant of handleTunnel's test without the auth exception
InterceptedAlways(ca, domain) == ca /\ domain \in aiDomains

\* handleTunnel: MITM intercept for AI API domains when a CA is available
Intercepted(ca, domain) ==
  ca /\ domain \in aiDomains /\ ~isAuthRequest(domain, <<>>)

\* handleTunnel; handleMITMTunnel up to the hijack (200 is written), or its
\* fall back to the opaque tunnel
handleTunnel ==
  /\ srv.pc = "handleTunnel"
  /\ srv' =
       IF Intercepted(srv.ca, Domain(srv.addr)) /\ srv.hijack
       THEN [srv EXCEPT !.pc = "mitm", !.route = "mitm",
                        !.client = Append(@, Status(200, ""))]
       ELSE [srv EXCEPT !.pc = "opaque", !.route = "opaque"]
  /\ UNCHANGED dial

\* handleOpaqueTunnel: a literal private address is refused with 403,
\* otherwise s.dialContext is called
OpaqueTunnel ==
  /\ srv.pc = "opaque"
  /\ IF isPrivateHost(srv.addr)
     THEN /\ srv' = [srv EXCEPT !.pc = "done", !.refused = TRUE,
                       !.client = Append(@, Status(403, "forbidden"))]
          /\ UNCHANGED dial
     ELSE /\ srv' = [srv EXCEPT !.pc = "opaque dial", !.dials = @ + 1]
          /\ DialCall(srv.addr)

\* handleOpaqueTunnel after the dial: 502 on any error, else 200 and the
\* copy in both directions (500 when the connection cannot be hijacked)
OpaqueDialed ==
  /\ srv.pc = "opaque dial"
  /\ dial.pc = "done"
  /\ srv' = [srv EXCEPT
       !.pc = "done",
       !.refused = @ \/ dial.err = "private",
       !.client = Append(@,
          IF dial.err # "" THEN Status(502, "bad gateway")
          ELSE IF ~srv.hijack THEN Status(500, "hijacking not supported")
          ELSE Status(200, ""))]
  /\ DialReturn

\* the handler of an intercepted connection is entered with a request:
\* isAuth is computed from the domain and the path
MitmRequest(path, body) ==
  /\ srv.pc = "mitm"
  /\ srv' = [srv EXCEPT !.pc = "anonymize", !.path = path, !.body = body,
                        !.isAuth = isAuthRequest(Domain(srv.addr), path)]
  /\ UNCHANGED dial

\* handleHTTP: isAuth and isAI
handleHTTP ==
  /\ srv.pc = "handleHTTP"
  /\ srv' = [srv EXCEPT !.pc = "anonymize", !.route = "http",
               !.isAuth = isAuthRequest(Domain(srv.addr), srv.path)]
  /\ UNCHANGED dial

\* a variant of the handlers' test that ignores isAuth
ToAnonymizeAuthToo ==
  srv.route = "mitm" \/ Domain(srv.addr) \in aiDomains

\* the request is one whose body the handler anonymizes
ToAnonymize ==
  IF srv.route = "mitm" THEN ~srv.isAuth
  ELSE Domain(srv.addr) \in aiDomains /\ ~srv.isAuth

\* a variant of anonymizeRequestBody that draws the session id before it
\* tests the size
anonymizeRequestBodyEager ==
  IF srv.body.len = 0
  THEN [srv EXCEPT !.pc = "forward", !.forwarded = "unchanged"]
  ELSE IF srv.body.readErr \/ srv.body.len > maxRequestBody
  THEN [srv EXCEPT !.pc = "done", !.sid = "sid", !.detector = TRUE,
          !.session = srv.body.pii,
          !.client = Append(@, Status(413, "payload too large"))]
  ELSE [srv EXCEPT !.pc = "forward", !.sid = "sid", !.detector = TRUE,
                   !.session = srv.body.pii, !.forwarded = "anonymized"]

\* anonymizeRequestBody and the handler's test of its error: no body, a body
\* that cannot be read or exceeds maxRequestBody (413), or AnonymizeJSON
\* under a new session id
anonymizeRequestBody ==
  IF srv.body.len = 0
  THEN [srv EXCEPT !.pc = "forward", !.forwarded = "unchanged"]
  ELSE IF srv.body.readErr \/ srv.body.len > maxRequestBody
  THEN [srv EXCEPT !.pc = "done",
          !.client = Append(@, Status(413, "payload too large"))]
  ELSE [srv EXCEPT !.pc = "forward", !.sid = "sid", !.detector = TRUE,
                   !.session = srv.body.pii, !.forwarded = "anonymized"]

\* the handler up to the call of forward or of RoundTrip
Anonymize ==
  /\ srv.pc = "anonymize"
  /\ srv' = IF ToAnonymize THEN anonymizeRequestBody
            ELSE [srv EXCEPT !.pc = "forward", !.forwarded = "unchanged"]
  /\ UNCHANGED dial

\* the address the transport dials: the URL's host with its port or with the
\* default port of the scheme
TransportAddr ==
  [srv.addr EXCEPT !.port = IF @ # "" THEN @
                            ELSE IF srv.route = "mitm" THEN "443" ELSE "80"]

\* forward: a literal private address is refused with 403; then, and in the
\* handler of an intercepted connection at once, s.transport.RoundTrip dials
Forward ==
  /\ srv.pc = "forward"
  /\ IF srv.route = "http" /\ isPrivateHost(srv.addr)
     THEN /\ srv' = [srv EXCEPT !.pc = "done", !.refused = TRUE,
                       !.client = Append(@, Status(403, "forbidden"))]
          /\ UNCHANGED dial
     ELSE /\ srv' = [srv EXCEPT !.pc = "roundtrip", !.dials = @ + 1]
          /\ DialCall(TransportAddr)

\* RoundTrip returns: 502 on an error, else the response is de-anonymized
\* (if there is a session id) and copied to the client
RoundTripped ==
  /\ srv.pc = "roundtrip"
  /\ dial.pc = "done"
  /\ srv' = IF dial.err # ""
            THEN [srv EXCEPT !.pc = "done",
                    !.refused = @ \/ dial.err = "private",
                    !.client = Append(@, Status(502, "bad gateway"))]
            ELSE [srv EXCEPT !.pc = "done",
                    !.deanon = srv.sid # "",
                    !.client = Append(@, Status(200, ""))]
  /\ DialReturn

\* the handler returns (the deferred DeleteSession drops the session); an
\* intercepted connection stays open for its next request
ServeReturn ==
  /\ srv.pc = "done"
  /\ srv' = IF srv.route = "mitm"
            THEN [IdleSrv EXCEPT !.pc = "mitm", !.ca = srv.ca,
                    !.hijack = srv.hijack, !.method = srv.method,
                    !.addr = srv.addr, !.route = "mitm",
                    !.client = <<Status(200, "")>>]
            ELSE IdleSrv
  /\ UNCHANGED dial

\* the client closes an intercepted connection
MitmClose ==
  /\ srv.pc = "mitm"
  /\ srv' = IdleSrv
  /\ UNCHANGED dial

(***************************************************************************)
(* Detector: AnonymizeJSON.  A decoded JSON value is a record with its     *)
(* type t, the elements s of a string and the members v of an object or    *)
(* array; the items of an array stand under the names "0", "1", ...        *)
(***************************************************************************)
IndexName(i) == <<"0", "1", "2", "3", "4">>[i + 1]

Str(x) == [t |-> "string", s |-> x, v |-> EmptyMap]

Arr(items) ==
  [t |-> "array", s |-> <<>>,
   v |-> [k \in {IndexName(i - 1) : i \in DOMAIN items} |->
            items[CHOOSE i \in DOMAIN items : IndexName(i - 1) = k]]]

Obj(members) == [t |-> "object", s |-> <<>>, v |-> members]

Null == [t |-> "null", s |-> <<>>, v |-> EmptyMap]

\* the items of an array, in their order
Items(array) ==
  [i \in 1..Cardinality(DOMAIN array.v) |-> array.v[IndexName(i - 1)]]

\* a body that json.Unmarshal rejects
NotJSON(text) == [t |-> "text", s |-> text, v |-> EmptyMap]

\* defaultPIIInstruction
defaultPIIInstruction == <<"PRIVACY TOKENS">>

\* the first pattern that matches the element b, 0 if there is none
MatchingPattern(b) ==
  LET ps == {p \in DOMAIN Patterns : ReMatch(p, b)}
  IN  IF ps = {} THEN 0 ELSE CHOOSE p \in ps : \A q \in ps : p <= q

\* AnonymizeText(text, requestID) with regex detection only: the text
RECURSIVE AnonymizedText(_)
AnonymizedText(text) ==
  IF text = <<>> THEN <<>>
  ELSE (IF MatchingPattern(text[1]) = 0 THEN <<text[1]>>
        ELSE replacement(Patterns[MatchingPattern(text[1])].piiType, text[1]))
         \o AnonymizedText(Tail(text))

\* walkValue's skip
skip == {"model", "temperature", "max_tokens", "top_p", "stream", "n"}

\* walkValue(v, requestID): the value it returns
RECURSIVE walkValue(_)
walkValue(v) ==
  CASE v.t = "string" -> Str(AnonymizedText(v.s))
    [] v.t = "array"  ->
         [v EXCEPT !.v = [k \in DOMAIN v.v |-> walkValue(v.v[k])]]
    [] v.t = "object" ->
         Obj([k \in DOMAIN v.v |->
                IF k \in skip THEN v.v[k] ELSE walkValue(v.v[k])])
    [] OTHER -> v

\* the PII values in the strings that walkValue hands to AnonymizeText
RECURSIVE Walked(_)
Walked(v) ==
  CASE v.t \in {"string", "text"} ->
         {b \in Range(v.s) : MatchingPattern(b) # 0}
    [] v.t = "array"  -> UNION {Walked(v.v[k]) : k \in DOMAIN v.v}
    [] v.t = "object" ->
         UNION {Walked(v.v[k]) : k \in (DOMAIN v.v) \ skip}
    [] OTHER -> {}

\* the session map after recordMapping for every value found
Recorded(sessionID, found) ==
  IF sessionID = "" \/ found = {} THEN sessions
  ELSE LET old  == Inner(sessions, sessionID)
           tok(b) == replacement(Patterns[MatchingPattern(b)].piiType, b)
           new  == {tok(b) : b \in found}
       IN  MapPut(sessions, sessionID,
                  [x \in (DOMAIN old) \cup new |->
                     IF x \in new
                     THEN CHOOSE b \in found : tok(b) = x
                     ELSE old[x]])

\* s + "\n\n" + instruction, or the instruction alone
WithInstruction(x, instruction) ==
  IF x = <<>> THEN instruction ELSE x \o <<"LF", "LF">> \o instruction

\* msg is a message object with role "system"
IsSystemMsg(msg) ==
  /\ msg.t = "object"
  /\ "role" \in DOMAIN msg.v
  /\ msg.v["role"] = Str(<<"system">>)

\* injectPIIInstruction, the OpenAI-compatible shape: the first message with
\* role "system" gets the instruction if its content is a string; without
\* such a message one is prepended
InjectIntoMessages(doc, instruction) ==
  LET msgs == Items(doc["messages"])
      sys  == {i \in DOMAIN msgs : IsSystemMsg(msgs[i])}
      systemMsg == Obj([role |-> Str(<<"system">>),
                        content |-> Str(instruction)])
  IN  IF sys # {}
      THEN LET first == CHOOSE i \in sys : \A j \in sys : i <= j
               msg   == msgs[first].v
           IN  IF "content" \in DOMAIN msg /\ msg["content"].t = "string"
               THEN [doc EXCEPT !["messages"] = Arr([msgs EXCEPT ![first] =
                       Obj([msg EXCEPT !["content"] =
                              Str(WithInstruction(@.s, instruction))])])]
               ELSE doc
      ELSE [doc EXCEPT !["messages"] = Arr(<<systemMsg>> \o msgs)]

\* injectPIIInstruction(doc, instruction): the members of doc afterwards
injectPIIInstruction(doc, instruction) ==
  IF instruction = <<>> THEN doc
  ELSE IF "system" \in DOMAIN doc /\ doc["system"].t = "string"
  THEN [doc EXCEPT !["system"] = Str(WithInstruction(@.s, instruction))]
  ELSE IF "system" \in DOMAIN doc /\ doc["system"].t = "array"
  THEN [doc EXCEPT !["system"] =
          Arr(Append(Items(@), Obj([type |-> Str(<<"text">>),
                                    text |-> Str(instruction)])))]
  ELSE IF "messages" \in DOMAIN doc /\ doc["messages"].t = "array"
  THEN InjectIntoMessages(doc, instruction)
  ELSE doc

\* AnonymizeJSON(body, requestID), with the session map it leaves behind
AnonymizeJSON(body, requestID) ==
  /\ jsonCall.pc = "idle"
  /\ LET after == Recorded(requestID, Walked(body))
         anonymized == walkValue(body)
         tokenCount == Cardinality(DOMAIN Inner(after, requestID))
     IN  /\ sessions' = after
         /\ jsonCall' =
              [pc |-> "done", body |-> body, sid |-> requestID,
               tokenCount |-> IF requestID = "" THEN 0 ELSE tokenCount,
               out |-> IF body.t = "text"
                       THEN NotJSON(AnonymizedText(body.s))
                       ELSE IF /\ anonymized.t = "object"
                               /\ requestID # ""
                               /\ tokenCount > 0
                       THEN Obj(injectPIIInstruction(anonymized.v,
                                                     defaultPIIInstruction))
                       ELSE anonymized]
  /\ UNCHANGED <<useAI, cache, inflight, ollamaSem, calls, tasks, emitted>>

\* the caller has taken the result
AnonymizeJSONReturn ==
  /\ jsonCall.pc = "done"
  /\ jsonCall' = [pc |-> "idle"]
  /\ UNCHANGED anonVars

(***************************************************************************)
(* The compiled patterns on the bytes of a string.  A text is a sequence   *)
(* of one-byte strings; a place p of a text s stands in front of s[p], and *)
(* each operator maps the places where a match of what precedes may end to *)
(* the places where a match that includes its own part may end.  A pattern *)
(* matches a string if the places that remain, started from any place, are *)
(* not empty: that is regexp.MatchString, which asks for a match anywhere. *)
(***************************************************************************)
Digits == {"0", "1", "2", "3", "4", "5", "6", "7", "8", "9"}

UpperCase ==
  <<"A", "B", "C", "D", "E", "F", "G", "H", "I", "J", "K", "L", "M",
    "N", "O", "P", "Q", "R", "S", "T", "U", "V", "W", "X", "Y", "Z">>

LowerCase ==
  <<"a", "b", "c", "d", "e", "f", "g", "h", "i", "j", "k", "l", "m",
    "n", "o", "p", "q", "r", "s", "t", "u", "v", "w", "x", "y", "z">>

Letters == {UpperCase[i] : i \in 1..26} \cup {LowerCase[i] : i \in 1..26}

HexDigits == Digits \cup {"a", "b", "c", "d", "e", "f"}
                    \cup {"A", "B", "C", "D", "E", "F"}

\* \w of RE2: ASCII letters, digits and the underscore
WordChars == Letters \cup Digits \cup {"_"}

\* \s of RE2; LF, TAB, FF and CR stand for the control bytes
Spaces == {" ", "LF", "TAB", "FF", "CR"}

\* [\-.\s] of the patterns
Separators == {"-", "."} \cup Spaces

\* [A-Za-z0-9._%+\-], [A-Za-z0-9.\-], [\s"':=], [a-zA-Z0-9_\-.], [\-\s] and
\* [A-Za-z\s] of the patterns
EmailLocalChars == Letters \cup Digits \cup {".", "_", "%", "+", "-"}

EmailDomainChars == Letters \cup Digits \cup {".", "-"}

KeySeparators == Spaces \cup {"\"", "'", ":", "="}

KeyChars == Letters \cup Digits \cup {"_", "-", "."}

CardSeparators == {"-"} \cup Spaces

StreetNameChars == Letters \cup Spaces

ToLower ==
  [c \in {UpperCase[i] : i \in 1..26} |->
     LowerCase[CHOOSE i \in 1..26 : UpperCase[i] = c]]

\* case folding of (?i): an upper-case letter is taken as its lower-case one
Fold(c) == IF c \in DOMAIN ToLower THEN ToLower[c] ELSE c

Places(s) == 1..(Len(s) + 1)

\* one byte of the class C
One(s, I, C) == {p + 1 : p \in {q \in I : q <= Len(s) /\ s[q] \in C}}

\* C?
Opt(s, I, C) == I \cup One(s, I, C)

RECURSIVE Run(_, _, _)
\* how many bytes of the class C stand in a row from the place p on
Run(s, p, C) ==
  IF p > Len(s) \/ s[p] \notin C THEN 0 ELSE 1 + Run(s, p + 1, C)

\* C{lo,hi}
Many(s, I, C, lo, hi) ==
  UNION { LET run == Run(s, p, C)
          IN {p + n : n \in lo..(IF run < hi THEN run ELSE hi)}
          : p \in I }

\* C{lo,}
AtLeast(s, I, C, lo) == Many(s, I, C, lo, Len(s))

\* \b: exactly one of the bytes on the two sides of the place is a word byte
IsWordAt(s, q) == q \in 1..Len(s) /\ s[q] \in WordChars

Boundary(s, I) == {p \in I : IsWordAt(s, p - 1) # IsWordAt(s, p)}

\* a literal word under (?i)
Word(s, I, w) ==
  {p + Len(w) : p \in {q \in I :
                         /\ q + Len(w) - 1 <= Len(s)
                         /\ \A k \in 1..Len(w) : Fold(s[q + k - 1]) = w[k]}}

\* \b[A-Za-z0-9._%+\-]+@[A-Za-z0-9.\-]+\.[A-Za-z]{2,}\b
reEmail(s, I) ==
  LET local == AtLeast(s, Boundary(s, I), EmailLocalChars, 1)
      domain == AtLeast(s, One(s, local, {"@"}), EmailDomainChars, 1)
  IN Boundary(s, AtLeast(s, One(s, domain, {"."}), Letters, 2))

\* (?i)(?:api[_\-]?key|token|secret|bearer)[\s"':=]+([a-zA-Z0-9_\-.]{20,})
reAPIKey(s, I) ==
  LET keyword ==
        Word(s, Opt(s, Word(s, I, <<"a","p","i">>), {"_", "-"}),
             <<"k","e","y">>)
          \cup Word(s, I, <<"t","o","k","e","n">>)
          \cup Word(s, I, <<"s","e","c","r","e","t">>)
          \cup Word(s, I, <<"b","e","a","r","e","r">>)
      sep == AtLeast(s, keyword, KeySeparators, 1)
  IN AtLeast(s, sep, KeyChars, 20)

\* \b(?:\d{3}-?\d{2}-?\d{4}|\d{9})\b
reSSN(s, I) ==
  LET start == Boundary(s, I)
      area == Opt(s, Many(s, start, Digits, 3, 3), {"-"})
      group == Opt(s, Many(s, area, Digits, 2, 2), {"-"})
  IN Boundary(s, Many(s, group, Digits, 4, 4)
                   \cup Many(s, start, Digits, 9, 9))

\* (?:\d{4}[\-\s]?)
CardBlock(s, I) == Opt(s, Many(s, I, Digits, 4, 4), CardSeparators)

\* \b(?:\d{4}[\-\s]?){3}\d{4}\b
reCreditCard(s, I) ==
  Boundary(s, Many(s, CardBlock(s, CardBlock(s, CardBlock(s,
                        Boundary(s, I)))), Digits, 4, 4))

StreetTypes ==
  { <<"s","t","r","e","e","t">>, <<"s","t">>, <<"a","v","e","n","u","e">>,
    <<"a","v","e">>, <<"r","o","a","d">>, <<"r","d">>,
    <<"b","o","u","l","e","v","a","r","d">>, <<"b","l","v","d">>,
    <<"l","a","n","e">>, <<"l","n">>, <<"d","r","i","v","e">>, <<"d","r">>,
    <<"c","o","u","r","t">>, <<"c","t">> }

\* (?i)\d+\s+[A-Za-z\s]+(?:Street|St|Avenue|...|Court|Ct)\b
reStreet(s, I) ==
  LET name == AtLeast(s, AtLeast(s, AtLeast(s, I, Digits, 1), Spaces, 1),
                      StreetNameChars, 1)
  IN Boundary(s, UNION {Word(s, name, w) : w \in StreetTypes})

\* [0-9a-fA-F]{1,4}
Hextet(s, I) == Many(s, I, HexDigits, 1, 4)

RECURSIVE HextetColons(_, _, _)
\* (?:[0-9a-fA-F]{1,4}:){n}
HextetColons(s, I, n) ==
  IF n = 0 THEN I
  ELSE One(s, Hextet(s, HextetColons(s, I, n - 1)), {":"})

RECURSIVE ColonHextets(_, _, _)
\* (?::[0-9a-fA-F]{1,4}){n}
ColonHextets(s, I, n) ==
  IF n = 0 THEN I
  ELSE Hextet(s, One(s, ColonHextets(s, I, n - 1), {":"}))

\* (?:[0-9a-fA-F]{1,4}:){lo,hi}
HeadGroups(s, I, lo, hi) == UNION {HextetColons(s, I, n) : n \in lo..hi}

\* (?::[0-9a-fA-F]{1,4}){lo,hi}
TailGroups(s, I, lo, hi) == UNION {ColonHextets(s, I, n) : n \in lo..hi}

\* the IPv6 pattern: its ten alternatives in their order
reIPv6(s, I) ==
  Hextet(s, HextetColons(s, I, 7))
    \cup One(s, HeadGroups(s, I, 1, 7), {":"})
    \cup Hextet(s, One(s, HeadGroups(s, I, 1, 6), {":"}))
    \cup TailGroups(s, HeadGroups(s, I, 1, 5), 1, 2)
    \cup TailGroups(s, HeadGroups(s, I, 1, 4), 1, 3)
    \cup TailGroups(s, HeadGroups(s, I, 1, 3), 1, 4)
    \cup TailGroups(s, HeadGroups(s, I, 1, 2), 1, 5)
    \cup TailGroups(s, HextetColons(s, I, 1), 1, 6)
    \cup TailGroups(s, One(s, I, {":"}), 1, 7)
    \cup One(s, One(s, I, {":"}), {":"})

\* (?:[0-9]{1,3}\.)
Octet(s, I) == One(s, Many(s, I, Digits, 1, 3), {"."})

\* \b(?:[0-9]{1,3}\.){3}[0-9]{1,3}\b
reIPv4(s, I) ==
  Boundary(s, Many(s, Octet(s, Octet(s, Octet(s, Boundary(s, I)))),
                   Digits, 1, 3))

\* (\+?1?[\-.\s]?)?\(?([0-9]{3})\)?[\-.\s]?([0-9]{3})[\-.\s]?([0-9]{4})
rePhone(s, I) ==
  LET prefix == I \cup Opt(s, Opt(s, Opt(s, I, {"+"}), {"1"}), Separators)
      area == Opt(s, Opt(s, Many(s, Opt(s, prefix, {"("}), Digits, 3, 3),
                         {")"}), Separators)
      exchange == Opt(s, Many(s, area, Digits, 3, 3), Separators)
  IN Many(s, exchange, Digits, 4, 4)

\* \b\d{5}(?:-\d{4})?\b
reZIP(s, I) ==
  LET five == Many(s, Boundary(s, I), Digits, 5, 5)
  IN Boundary(s, five \cup Many(s, One(s, five, {"-"}), Digits, 4, 4))

\* p.re.MatchString(s) for the p-th compiled pattern
MatchString(p, s) ==
  LET I == Places(s)
  IN CASE p = 1 -> reEmail(s, I) # {}
       [] p = 2 -> reAPIKey(s, I) # {}
       [] p = 3 -> reSSN(s, I) # {}
       [] p = 4 -> reCreditCard(s, I) # {}
       [] p = 5 -> reStreet(s, I) # {}
       [] p = 6 -> reIPv6(s, I) # {}
       [] p = 7 -> reIPv4(s, I) # {}
       [] p = 8 -> rePhone(s, I) # {}
       [] p = 9 -> reZIP(s, I) # {}

\* the compiled patterns that match s
Matching(s) == {p \in DOMAIN Patterns : MatchString(p, s)}

\* no value is being looked at
NoScan ==
  [pc |-> "idle", piiType |-> "", original |-> <<>>, digest |-> <<>>,
   text |-> <<>>, found |-> {}, again |-> {}]

\* AnonymizeText runs the compiled patterns over a text that holds the value
ScanDetect ==
  /\ scan.pc = "text"
  /\ scan' = [scan EXCEPT !.pc = "detected", !.found = Matching(scan.original)]

\* replacement(piiType, original): the token of the value, whose MD5 digest
\* begins with the hex digits h
ScanReplace(h) ==
  /\ scan.pc = "detected"
  /\ scan' = [scan EXCEPT !.pc = "token", !.digest = h,
                          !.text = TokenText(scan.piiType, h)]

\* a later call of AnonymizeText runs the compiled patterns over the token
ScanRedetect ==
  /\ scan.pc = "token"
  /\ scan' = [scan EXCEPT !.pc = "done", !.again = Matching(scan.text)]

(***************************************************************************)
(* mitm.CA: the cache of leaf certificates and CertFor.  ca.mu is a        *)
(* sync.RWMutex: the lookup under RLock is one step, the generation of the *)
(* key, the serial and the signature happens with no lock held, and the    *)
(* insertion under Lock is one step.  A leaf is told apart by its host and *)
(* by the call that minted it; valid says that its Leaf is parsed and has  *)
(* more than an hour left.                                                 *)
(***************************************************************************)
\* the code's limit is 10_000; the model keeps the comparison and scales the
\* number so that the cache can be filled
maxCertCache == 2

CertHosts == {"h1", "h2", "h3", "h4"}

CertCallers == {1, 2}

NoLeaf == [host |-> "", by |-> 0, valid |-> FALSE]

\* seen is an observer: the hosts the cache held when the call inserted
IdleCert ==
  [pc |-> "idle", host |-> "", leaf |-> NoLeaf, err |-> "", seen |-> {}]

EmptyCertCache == [h \in {} |-> NoLeaf]

NoCerts == [cache |-> EmptyCertCache, calls |-> [g \in CertCallers |-> IdleCert]]

\* the lookup under ca.mu.RLock(): a cached leaf with more than an hour left
\* is returned, otherwise the caller goes on to generate one
CertForLookup(g, host) ==
  /\ certs.calls[g].pc = "idle"
  /\ certs' =
       [certs EXCEPT !.calls[g] =
          IF host \in DOMAIN certs.cache /\ certs.cache[host].valid
          THEN [pc |-> "returned", host |-> host,
                leaf |-> certs.cache[host], err |-> "", seen |-> {}]
          ELSE [pc |-> "generating", host |-> host, leaf |-> NoLeaf,
                err |-> "", seen |-> {}]]

\* rsa.GenerateKey, rand.Int or x509.CreateCertificate fails: the error is
\* returned and the cache is not touched
CertForFail(g, err) ==
  /\ certs.calls[g].pc = "generating"
  /\ certs' = [certs EXCEPT !.calls[g].pc = "returned", !.calls[g].err = err]

\* the insertion with the limit never applied
CertStoredUnbounded(store, host, leaf) ==
  [h \in DOMAIN store \cup {host} |-> IF h = host THEN leaf ELSE store[h]]

\* ca.cache[host] = leaf; if len(ca.cache) > maxCertCache the map is replaced
\* by a new one that holds the leaf alone
CertStored(store, host, leaf) ==
  LET put == [h \in DOMAIN store \cup {host} |->
                IF h = host THEN leaf ELSE store[h]]
  IN IF Cardinality(DOMAIN put) > maxCertCache
     THEN [h \in {host} |-> leaf]
     ELSE put

\* the leaf is signed; under ca.mu.Lock() it is inserted and returned
CertForStore(g) ==
  /\ certs.calls[g].pc = "generating"
  /\ LET host == certs.calls[g].host
         leaf == [host |-> host, by |-> g, valid |-> TRUE]
     IN certs' =
          [certs EXCEPT !.cache = CertStored(@, host, leaf),
                        !.calls[g].pc = "returned",
                        !.calls[g].leaf = leaf,
                        !.calls[g].seen = DOMAIN certs.cache]

\* the caller has taken the result
CertForReturn(g) ==
  /\ certs.calls[g].pc = "returned"
  /\ certs' = [certs EXCEPT !.calls[g] = IdleCert]

\* time passes: a cached leaf comes within an hour of its NotAfter
LeafExpires(host) ==
  /\ host \in DOMAIN certs.cache
  /\ certs.cache[host].valid
  /\ certs' = [certs EXCEPT !.cache[host].valid = FALSE]

(***************************************************************************)
(* mitm.HandleConn under the CONNECT handler.  For each intercepted        *)
(* connection: the goroutine of handleMITMTunnel, which calls HandleConn   *)
(* and in it http.Server.Serve (a loop of l.Accept and "go c.serve") or    *)
(* http2.Server.ServeConn; the goroutine c.serve of the accepted           *)
(* connection, which closes the connection when reading from it fails; and *)
(* the client, which may close its end at any time.  Serve returns, and    *)
(* calls l.Close on its way out, only when Accept returns an error.        *)
(***************************************************************************)
Tunnels == {1, 2}

\* the protocols the handshake can negotiate, and its failure
Handshakes == {"failed", "h2", "http/1.1"}

\* pc: where the goroutine of handleMITMTunnel stands ("handshake",
\* "accept": Serve is about to call l.Accept, "blocked": inside the select of
\* Accept, "serveconn": inside ServeConn, "deferred": HandleConn has
\* returned, "returned"); done: l.done; serving: c.serve runs; clientGone:
\* the client has closed its end; connClosed: the proxy has closed the
\* connection
IdleTunnel ==
  [pc |-> "idle", proto |-> "", done |-> FALSE, serving |-> FALSE,
   clientGone |-> FALSE, connClosed |-> FALSE]

NoTunnels == [t \in Tunnels |-> IdleTunnel]

\* handleMITMTunnel up to the call of HandleConn: the connection is hijacked
handleMITMTunnel(t) ==
  /\ tunnels[t].pc = "idle"
  /\ tunnels' = [tunnels EXCEPT ![t].pc = "handshake"]

\* HandleConn: tlsConn.Handshake and the switch on the negotiated protocol;
\* the handshake with a client that is gone fails
HandleConn(t, proto) ==
  /\ tunnels[t].pc = "handshake"
  /\ tunnels[t].clientGone => proto = "failed"
  /\ tunnels' = [tunnels EXCEPT
       ![t].proto = proto,
       ![t].pc = CASE proto = "failed" -> "deferred"
                   [] proto = "h2"     -> "serveconn"
                   [] OTHER            -> "accept"]

\* singleConnListener.Accept, called by the loop of Serve: the first call
\* sets done and returns the connection, for which Serve starts c.serve; a
\* later call enters "select {}"
Accept(t) ==
  /\ tunnels[t].pc = "accept"
  /\ IF ~tunnels[t].done
     THEN tunnels' = [tunnels EXCEPT ![t].done = TRUE, ![t].serving = TRUE]
     ELSE tunnels' = [tunnels EXCEPT ![t].pc = "blocked"]

\* the client closes its end of the connection
ClientClose(t) ==
  /\ tunnels[t].pc \notin {"idle", "returned"}
  /\ ~tunnels[t].clientGone
  /\ tunnels' = [tunnels EXCEPT ![t].clientGone = TRUE]

\* c.serve: reading the next request fails, the connection is closed, the
\* goroutine ends
ConnServeReturn(t) ==
  /\ tunnels[t].serving
  /\ tunnels[t].clientGone
  /\ tunnels' = [tunnels EXCEPT ![t].serving = FALSE, ![t].connClosed = TRUE]

\* ServeConn returns (the client is gone, or the idle timeout has passed);
\* HandleConn returns through its deferred tlsConn.Close
ServeConnReturn(t) ==
  /\ tunnels[t].pc = "serveconn"
  /\ tunnels' = [tunnels EXCEPT ![t].pc = "deferred", ![t].connClosed = TRUE]

\* handleMITMTunnel returns through its deferred clientConn.Close
handleMITMTunnelReturn(t) ==
  /\ tunnels[t].pc = "deferred"
  /\ tunnels' = [tunnels EXCEPT ![t].pc = "returned", ![t].connClosed = TRUE]

(***************************************************************************)
(* management.DomainRegistry.  r.domains is a set; a snapshot and the      *)
(* contents of the persisted file are sorted lists of domains.  Add and    *)
(* Remove change the set and take the snapshot under r.mu, then persist    *)
(* the snapshot after the mutex has been released.                         *)
(***************************************************************************)
DomainOrder == <<"d1", "d2">>

Domains == {DomainOrder[i] : i \in DOMAIN DomainOrder}

\* cfg.AIAPIDomains
DefaultDomains == {"d1"}

\* the goroutines that call Add and Remove
RegistryCallers == {1, 2}

IdleRegistryCall == [pc |-> "idle", snapshot |-> <<>>]

\* snapshotLocked: the sorted list of the domains
snapshotLocked(domains) == SelectSeq(DomainOrder, LAMBDA d : d \in domains)

\* loadFromDisk and the loop of NewDomainRegistry: the set of the listed
\* domains
Loaded(data) == {data[i] : i \in DOMAIN data}

\* NewDomainRegistry(cfg, persistPath): the domains of the file if there is
\* one, else the defaults of the configuration
NewDomainRegistry(file) ==
  IF file.exists THEN Loaded(file.data) ELSE DefaultDomains

\* domains: r.domains; file: the file at persistPath; calls: the calls of Add
\* and Remove in progress; observers: started counts the calls, failed tells
\* that a write failed, restarted that the process has been started again,
\* before holds r.domains as it was before that
NoRegistry ==
  [domains   |-> DefaultDomains,
   file      |-> [exists |-> FALSE, data |-> <<>>],
   calls     |-> [g \in RegistryCallers |-> IdleRegistryCall],
   started   |-> 0,
   failed    |-> FALSE,
   restarted |-> FALSE,
   before    |-> {}]

\* the critical section of Add or Remove: the set is changed to domains and
\* the snapshot is taken
RegistryLocked(g, domains) ==
  /\ registry.calls[g].pc = "idle"
  /\ ~registry.restarted
  /\ registry' = [registry EXCEPT
       !.domains = domains,
       !.calls[g] = [pc |-> "persist", snapshot |-> snapshotLocked(domains)],
       !.started = @ + 1]

\* Add(domain) up to r.mu.Unlock
DomainRegistryAdd(g, domain) == RegistryLocked(g, registry.domains \cup {domain})

\* Remove(domain) up to r.mu.Unlock
DomainRegistryRemove(g, domain) == RegistryLocked(g, registry.domains \ {domain})

\* persist(snapshot): the temporary file is written and renamed to
\* persistPath; the call returns
persist(g) ==
  /\ registry.calls[g].pc = "persist"
  /\ registry' = [registry EXCEPT
       !.file = [exists |-> TRUE, data |-> registry.calls[g].snapshot],
       !.calls[g] = IdleRegistryCall]

\* persist(snapshot) fails at CreateTemp, Write, Close or Rename: the error
\* is logged, the file is as before; the call returns
persistFails(g) ==
  /\ registry.calls[g].pc = "persist"
  /\ registry' = [registry EXCEPT
       !.failed = TRUE,
       !.calls[g] = IdleRegistryCall]

\* the process is started again with the same persistPath
RegistryRestart ==
  /\ ~registry.restarted
  /\ \A g \in RegistryCallers : registry.calls[g].pc = "idle"
  /\ registry' = [registry EXCEPT
       !.domains = NewDomainRegistry(registry.file),
       !.restarted = TRUE,
       !.before = registry.domains]

(***************************************************************************)
(* The S3-FIFO value cache (s3fifoCache) in front of a backing store.      *)
(* A critical section of c.mu that cannot block is one step; insertLocked  *)
(* holds the mutex over several steps while it evicts.  The queues hold    *)
(* keys; an entry's elem pointer is the place of its key in its queue,     *)
(* which is exact as long as no key stands twice in the queues.            *)
(***************************************************************************)
KeyOrder == <<"k1", "k2", "k3", "k4", "k5">>

CacheKeys == Range(KeyOrder)

CacheTokens == {"t1", "t2"}

\* the capacities handed to newS3FIFOCache
Capacities == {1, 3}

\* asynchronous backing-store deletes that may be pending at one time
MaxAsync == 2

MaxCalls == 4

MaxGhostCalls == 8

newS3FIFOCache(capacity) ==
  LET cap      == IF capacity < 2 THEN 2 ELSE capacity
      sTarget  == IF cap \div 10 < 1 THEN 1 ELSE cap \div 10
      ghostCap == IF 2 * sTarget < 4 THEN 4 ELSE 2 * sTarget
  IN  [mu         |-> 0,
       capacity   |-> cap,
       sTarget    |-> sTarget,
       ghostCap   |-> ghostCap,
       entries    |-> EmptyMap,
       sQueue     |-> <<>>,
       mQueue     |-> <<>>,
       ghostBuf   |-> [i \in 0..(ghostCap - 1) |-> ""],
       ghostSet   |-> {},
       ghostHead  |-> 0,
       ghostCount |-> 0]

IdleOp == [pc |-> "idle", op |-> "", key |-> "", value |-> ""]

Goroutines == DOMAIN ops

NoDeletes == [k \in CacheKeys |-> 0]

RECURSIVE SumOver(_, _)
SumOver(f, S) ==
  IF S = {} THEN 0
  ELSE LET x == CHOOSE y \in S : TRUE IN f[x] + SumOver(f, S \ {x})

\* list.Remove(e.elem)
Remove(queue, key) ==
  LET Other(x) == x # key IN SelectSeq(queue, Other)

\* ghostContains that finds no key
ghostContainsNever(c, key) == FALSE

ghostContains(c, key) == key \in c.ghostSet

\* ghostAdd without the eviction of the oldest entry of a full ring
ghostAddNoEvict(c, key) ==
  IF key \in c.ghostSet THEN c
  ELSE LET writeIdx == (c.ghostHead + c.ghostCount) % c.ghostCap
       IN  [c EXCEPT !.ghostBuf[writeIdx] = key,
                     !.ghostSet = @ \cup {key},
                     !.ghostCount = @ + 1]

\* ghostAdd without the test for a key that is already a ghost
ghostAddNoDedup(c, key) ==
  LET c1 == IF c.ghostCount = c.ghostCap
            THEN [c EXCEPT !.ghostSet = @ \ {c.ghostBuf[c.ghostHead]},
                           !.ghostHead = (@ + 1) % c.ghostCap,
                           !.ghostCount = @ - 1]
            ELSE c
      writeIdx == (c1.ghostHead + c1.ghostCount) % c1.ghostCap
  IN  [c1 EXCEPT !.ghostBuf[writeIdx] = key,
                 !.ghostSet = @ \cup {key},
                 !.ghostCount = @ + 1]

ghostAdd(c, key) ==
  IF key \in c.ghostSet THEN c
  ELSE LET c1 == IF c.ghostCount = c.ghostCap
                 THEN [c EXCEPT !.ghostSet = @ \ {c.ghostBuf[c.ghostHead]},
                                !.ghostHead = (@ + 1) % c.ghostCap,
                                !.ghostCount = @ - 1]
                 ELSE c
           writeIdx == (c1.ghostHead + c1.ghostCount) % c1.ghostCap
       IN  [c1 EXCEPT !.ghostBuf[writeIdx] = key,
                      !.ghostSet = @ \cup {key},
                      !.ghostCount = @ + 1]

\* evictFromM that records the evicted key in the ghost ring
evictFromMGhost(m) ==
  IF m.c.mQueue = <<>> THEN m
  ELSE LET key == Head(m.c.mQueue)
       IN  [c  |-> ghostAdd([m.c EXCEPT !.mQueue = Tail(@),
                                        !.entries = MapDel(@, key)], key),
            go |-> Append(m.go, key)]

\* m.c is the cache, m.go the keys of the goroutines started with
\* go c.backing.Delete(key)
evictFromM(m) ==
  IF m.c.mQueue = <<>> THEN m
  ELSE LET key == Head(m.c.mQueue)
       IN  [c  |-> [m.c EXCEPT !.mQueue = Tail(@), !.entries = MapDel(@, key)],
            go |-> Append(m.go, key)]

\* evictFromS with a promotion that keeps the frequency counter
evictFromSKeepFreq(m) ==
  IF m.c.sQueue = <<>> THEN m
  ELSE LET key == Head(m.c.sQueue)
           c1  == [m.c EXCEPT !.sQueue = Tail(@)]
       IN  IF key \notin DOMAIN c1.entries THEN [m EXCEPT !.c = c1]
           ELSE IF c1.entries[key].freq > 0
           THEN LET c2 == [c1 EXCEPT !.entries[key].inM = TRUE,
                                     !.mQueue = Append(@, key)]
                    mTarget == c2.capacity - c2.sTarget
                IN  IF Len(c2.mQueue) > mTarget
                    THEN evictFromM([m EXCEPT !.c = c2])
                    ELSE [m EXCEPT !.c = c2]
           ELSE [c  |-> ghostAdd([c1 EXCEPT !.entries = MapDel(@, key)], key),
                 go |-> Append(m.go, key)]

\* evictFromS with a promotion that leaves the entry's inM flag as it was
evictFromSNoFlag(m) ==
  IF m.c.sQueue = <<>> THEN m
  ELSE LET key == Head(m.c.sQueue)
           c1  == [m.c EXCEPT !.sQueue = Tail(@)]
       IN  IF key \notin DOMAIN c1.entries THEN [m EXCEPT !.c = c1]
           ELSE IF c1.entries[key].freq > 0
           THEN LET c2 == [c1 EXCEPT !.entries[key].freq = 0,
                                     !.mQueue = Append(@, key)]
                    mTarget == c2.capacity - c2.sTarget
                IN  IF Len(c2.mQueue) > mTarget
                    THEN evictFromM([m EXCEPT !.c = c2])
                    ELSE [m EXCEPT !.c = c2]
           ELSE [c  |-> ghostAdd([c1 EXCEPT !.entries = MapDel(@, key)], key),
                 go |-> Append(m.go, key)]

evictFromS(m) ==
  IF m.c.sQueue = <<>> THEN m
  ELSE LET key == Head(m.c.sQueue)
           c1  == [m.c EXCEPT !.sQueue = Tail(@)]
       IN  IF key \notin DOMAIN c1.entries THEN [m EXCEPT !.c = c1]
           ELSE IF c1.entries[key].freq > 0
           THEN LET c2 == [c1 EXCEPT !.entries[key].freq = 0,
                                     !.entries[key].inM = TRUE,
                                     !.mQueue = Append(@, key)]
                    mTarget == c2.capacity - c2.sTarget
                IN  IF Len(c2.mQueue) > mTarget
                    THEN evictFromM([m EXCEPT !.c = c2])
                    ELSE [m EXCEPT !.c = c2]
           ELSE [c  |-> ghostAdd([c1 EXCEPT !.entries = MapDel(@, key)], key),
                 go |-> Append(m.go, key)]

evictOne(m) ==
  IF Len(m.c.sQueue) > 0 THEN evictFromS(m) ELSE evictFromM(m)

removeFromMemory(c, key) ==
  IF key \notin DOMAIN c.entries THEN c
  ELSE IF c.entries[key].inM
  THEN [c EXCEPT !.mQueue = Remove(@, key), !.entries = MapDel(@, key)]
  ELSE [c EXCEPT !.sQueue = Remove(@, key), !.entries = MapDel(@, key)]

\* the loop condition of insertLocked, off by one
overCapacityByOne(c) == Len(c.sQueue) + Len(c.mQueue) > c.capacity + 1

\* the loop condition of insertLocked
overCapacity(c) == Len(c.sQueue) + Len(c.mQueue) > c.capacity

\* insertLocked that treats a resident key as an access: its counter is
\* reset and its key goes to the back of its queue
insertLockedRequeue(g, o) ==
  /\ s3fifo.mu = 0
  /\ IF o.key \in DOMAIN s3fifo.entries
     THEN /\ LET inM == s3fifo.entries[o.key].inM
             IN  s3fifo' =
                   [s3fifo EXCEPT
                      !.entries[o.key].value = o.value,
                      !.entries[o.key].freq = 0,
                      !.mQueue = IF inM THEN Append(Remove(@, o.key), o.key)
                                 ELSE @,
                      !.sQueue = IF inM THEN @
                                 ELSE Append(Remove(@, o.key), o.key)]
          /\ ops' = [ops EXCEPT ![g] = IF o.op = "Set"
                                       THEN [o EXCEPT !.pc = "backing.Set"]
                                       ELSE [pc |-> "idle", op |-> "",
                                             key |-> "", value |-> ""]]
     ELSE /\ SumOver(deleting, CacheKeys) < MaxAsync
          /\ LET inM == ghostContains(s3fifo, o.key)
             IN  s3fifo' =
                   [s3fifo EXCEPT
                      !.mu = g,
                      !.mQueue = IF inM THEN Append(@, o.key) ELSE @,
                      !.sQueue = IF inM THEN @ ELSE Append(@, o.key),
                      !.entries = MapPut(@, o.key,
                                    [value |-> o.value, freq |-> 0, inM |-> inM])]
          /\ ops' = [ops EXCEPT ![g] = [o EXCEPT !.pc = "evict"]]
  /\ UNCHANGED <<backing, deleting>>

\* where a caller of insertLocked goes on: Set writes the backing store,
\* Get returns
AfterInsert(o) ==
  IF o.op = "Set" THEN [o EXCEPT !.pc = "backing.Set"] ELSE IdleOp

\* insertLocked takes the mutex: a resident key gets the value and the
\* mutex is released; a new key is pushed to M if it is a ghost, to S if not
insertLocked(g, o) ==
  /\ s3fifo.mu = 0
  /\ IF o.key \in DOMAIN s3fifo.entries
     THEN /\ s3fifo' = [s3fifo EXCEPT !.entries[o.key].value = o.value]
          /\ ops' = [ops EXCEPT ![g] = AfterInsert(o)]
     ELSE /\ SumOver(deleting, CacheKeys) < MaxAsync
          /\ LET inM == ghostContains(s3fifo, o.key)
             IN  s3fifo' =
                   [s3fifo EXCEPT
                      !.mu = g,
                      !.mQueue = IF inM THEN Append(@, o.key) ELSE @,
                      !.sQueue = IF inM THEN @ ELSE Append(@, o.key),
                      !.entries = MapPut(@, o.key,
                                    [value |-> o.value, freq |-> 0, inM |-> inM])]
          /\ ops' = [ops EXCEPT ![g] = [o EXCEPT !.pc = "evict"]]
  /\ UNCHANGED <<backing, deleting>>

\* one turn of the eviction loop of insertLocked
InsertEvict(g) ==
  /\ ops[g].pc = "evict"
  /\ overCapacity(s3fifo)
  /\ LET m == evictOne([c |-> s3fifo, go |-> <<>>])
     IN  /\ s3fifo' = m.c
         /\ deleting' = [k \in CacheKeys |->
                           deleting[k] + Cardinality({i \in DOMAIN m.go : m.go[i] = k})]
  /\ UNCHANGED <<backing, ops, started>>

\* the loop of insertLocked ends, the deferred Unlock runs
InsertUnlock(g) ==
  /\ ops[g].pc = "evict"
  /\ ~overCapacity(s3fifo)
  /\ s3fifo' = [s3fifo EXCEPT !.mu = 0]
  /\ ops' = [ops EXCEPT ![g] = AfterInsert(ops[g])]
  /\ UNCHANGED <<backing, deleting, started>>

\* Get: a memory hit counts the access; a miss goes on to the backing store
\* Get whose counter does not saturate (uint8)
GetNoSaturation(g, original) ==
  /\ ops[g].pc = "idle"
  /\ s3fifo.mu = 0
  /\ IF original \in DOMAIN s3fifo.entries
     THEN /\ s3fifo' = [s3fifo EXCEPT
                          !.entries[original].freq = (@ + 1) % 256]
          /\ UNCHANGED ops
     ELSE /\ ops' = [ops EXCEPT ![g] =
                       [pc |-> "backing.Get", op |-> "Get", key |-> original,
                        value |-> ""]]
          /\ UNCHANGED s3fifo
  /\ started' = started + 1
  /\ UNCHANGED <<backing, deleting>>

Get(g, original) ==
  /\ ops[g].pc = "idle"
  /\ s3fifo.mu = 0
  /\ IF original \in DOMAIN s3fifo.entries
     THEN /\ s3fifo' = [s3fifo EXCEPT
                          !.entries[original].freq = IF @ < 3 THEN @ + 1 ELSE @]
          /\ UNCHANGED ops
     ELSE /\ ops' = [ops EXCEPT ![g] =
                       [pc |-> "backing.Get", op |-> "Get", key |-> original,
                        value |-> ""]]
          /\ UNCHANGED s3fifo
  /\ started' = started + 1
  /\ UNCHANGED <<backing, deleting>>

\* the cold path of Get reads the backing store without the mutex
GetBacking(g) ==
  /\ ops[g].pc = "backing.Get"
  /\ ops' = [ops EXCEPT ![g] =
               IF ops[g].key \in DOMAIN backing
               THEN [ops[g] EXCEPT !.pc = "insertLocked",
                                   !.value = backing[ops[g].key]]
               ELSE IdleOp]
  /\ UNCHANGED <<s3fifo, backing, deleting, started>>

\* the cold path of Get re-warms the entry
GetRewarm(g) ==
  /\ ops[g].pc = "insertLocked"
  /\ insertLocked(g, ops[g])
  /\ UNCHANGED started

\* Set: insertLocked, then the write to the backing store
Set(g, original, token) ==
  /\ ops[g].pc = "idle"
  /\ insertLocked(g, [pc |-> "insertLocked", op |-> "Set", key |-> original,
                      value |-> token])
  /\ started' = started + 1

SetBacking(g) ==
  /\ ops[g].pc = "backing.Set"
  /\ backing' = MapPut(backing, ops[g].key, ops[g].value)
  /\ ops' = [ops EXCEPT ![g] = IdleOp]
  /\ UNCHANGED <<s3fifo, deleting, started>>

\* Delete: out of memory under the mutex, then out of the backing store
Delete(g, original) ==
  /\ ops[g].pc = "idle"
  /\ s3fifo.mu = 0
  /\ s3fifo' = removeFromMemory(s3fifo, original)
  /\ ops' = [ops EXCEPT ![g] =
               [pc |-> "backing.Delete", op |-> "Delete", key |-> original,
                value |-> ""]]
  /\ started' = started + 1
  /\ UNCHANGED <<backing, deleting>>

DeleteBacking(g) ==
  /\ ops[g].pc = "backing.Delete"
  /\ backing' = MapDel(backing, ops[g].key)
  /\ ops' = [ops EXCEPT ![g] = IdleOp]
  /\ UNCHANGED <<s3fifo, deleting, started>>

\* a goroutine started by an eviction deletes its key from the backing store
AsyncDelete(key) ==
  /\ deleting[key] > 0
  /\ backing' = MapDel(backing, key)
  /\ deleting' = [deleting EXCEPT ![key] = @ - 1]
  /\ UNCHANGED <<s3fifo, ops, started>>

NoCall ==
  [n |-> 0, op |-> "", key |-> "", value |-> "", ret |-> "", ok |-> FALSE,
   promoted |-> <<>>]

InitCacheWith(gs, capacities) ==
  /\ hist = NoCall
  /\ ghosted = {}
  /\ dial = IdleDial
  /\ srv = IdleSrv
  /\ jsonCall = [pc |-> "idle"]
  /\ certs = NoCerts
  /\ scan = NoScan
  /\ tunnels = NoTunnels
  /\ registry = NoRegistry
  /\ warm = [skipped |-> {}, busy |-> {}, ended |-> {}, resp |-> NoResponse]
  /\ written = [reopened |-> FALSE, bind |-> [key \in CacheKeys |-> ""]]
  /\ hits = [key \in CacheKeys |-> 0]
  /\ \E capacity \in capacities : s3fifo = newS3FIFOCache(capacity)
  /\ backing = EmptyMap
  /\ deleting = NoDeletes
  /\ ops = [g \in gs |-> IdleOp]
  /\ started = 0

(***************************************************************************)
(* Specification of the Detector and the Session Map: one goroutine calls  *)
(* AnonymizeText again and again, the warm-up goroutines and DeleteSession *)
(* run concurrently.                                                       *)
(***************************************************************************)
InitAnonymizer(cs) ==
  /\ useAI \in BOOLEAN
  /\ sessions = EmptyMap
  /\ cache = EmptyMap
  /\ inflight = {}
  /\ ollamaSem = 0
  /\ calls = [c \in cs |-> IdleCall]
  /\ tasks = NoTasks
  /\ emitted = [v \in Values |-> {}]
  /\ streams = [i \in cs |-> IdleStream]
  /\ reqs = [r \in cs |-> IdleReq]

\* the Anonymizer runs on its memoryCache: no goroutine calls the s3fifoCache
InitAnonWith(cs) ==
  /\ InitAnonymizer(cs)
  /\ InitCacheWith({}, {0})

InitAnon == InitAnonWith({1})

NextAnon ==
  \/ \E c \in Callers, t \in AnonTexts, s \in {"s1", ""} :
       AnonymizeTextCall(c, t, s) /\ UNCHANGED notAnon
  \/ \E c \in Callers : AnonymizeTextMatch(c) /\ UNCHANGED notAnon
  \/ \E c \in Callers : AnonymizeTextDispatch(c) /\ UNCHANGED notAnon
  \/ \E c \in Callers : AnonymizeTextReturn(c) /\ UNCHANGED notAnon
  \/ \E s \in SessionIds : DeleteSession(s) /\ UNCHANGED notSession
  \/ \E v \in Values : TaskAcquire(v) /\ UNCHANGED notAnon
  \/ \E v \in Values : TaskQuery(v) /\ UNCHANGED notAnon
  \/ \E v \in Values : TaskRelease(v) /\ UNCHANGED notAnon
  \/ \E v \in Values : TaskCleanup(v) /\ UNCHANGED notAnon

SpecAnon == InitAnon /\ [][NextAnon]_vars


(***************************************************************************)
(* Specification of a streamed response: a request anonymizes its body     *)
(* under session "s1", the upstream answers with an SSE body, the stream   *)
(* goroutine rewrites it while DeleteSession may run at any time.          *)
(***************************************************************************)

\* the tokens of the two values the request body holds
TokenE == replacement("email", "e1")

TokenP == replacement("phone", "p1")

\* n times the byte b
Rep(b, n) == [i \in 1..n |-> b]

\* one text_delta event as the upstream sends it, with its blank line
DeltaEvent(text) == DataPrefix \o <<"{T">> \o text \o <<JsonClose, "LF", "LF">>

\* the events that carry the chunks of a text, one after the other
RECURSIVE Events(_)
Events(chunks) ==
  IF Len(chunks) = 0 THEN <<>>
  ELSE DeltaEvent(chunks[1]) \o Events(Tail(chunks))

\* a text in one event, or split in two at any place
Chunkings(text) ==
  {<<text>>}
    \cup {<<Slice(text, 1, k), From(text, k + 1)>> : k \in 1..(Len(text) - 1)}

\* a text split into one event per byte
Bytewise(text) == [i \in 1..Len(text) |-> <<text[i]>>]

\* the least number of bytes behind a token of the length of TokenE that
\* makes the accumulated text longer than tokenSuffixLen
MaxFollow == tokenSuffixLen - Len(TokenE) + 1

\* bodies that consist of text_delta events only: a token with MaxFollow
\* bytes behind it, split in every way into one or two events; a token sent
\* byte by byte; whole events with less text behind the token, with text
\* before it, with two tokens
DeltaBodies ==
  {Events(ch) : ch \in Chunkings(TokenE \o Rep("a", MaxFollow))}
    \cup {Events(Bytewise(TokenE))}
    \cup {DeltaEvent(t) : t \in {TokenE \o Rep("a", MaxFollow - 1),
                                  <<"a">> \o TokenE,
                                  TokenP \o TokenE}}

\* bodies of complete lines that are neither comments nor data lines
PlainBodies ==
  {TokenE \o <<"LF">>,
   <<"a", "LF">> \o TokenP \o <<"a">> \o TokenE \o <<"LF", "LF">>}

\* other bodies: a last line without newline, a comment, "data: [DONE]"
\* behind a token, a non-delta event, text followed by a non-delta event,
\* CRLF; text followed by an event with its "event:" line (written "ev"),
\* text followed by "data: [DONE]", and a token in a text event followed by
\* a last line without newline
OtherBodies ==
  {<<"a">> \o TokenE,
   <<":", " ">> \o TokenE \o <<"LF">>,
   DataPrefix \o TokenE \o <<"[", "D", "O", "N", "E", "]", "LF">>,
   DataPrefix \o <<"{O">> \o TokenE \o <<JsonClose, "LF", "LF">>,
   DeltaEvent(<<"a">> \o TokenE)
     \o DataPrefix \o <<"{O", "a", JsonClose, "LF", "LF">>,
   TokenE \o <<"CR", "LF">>,
   DeltaEvent(<<"a">>) \o <<"e", "v", "LF">>
     \o DataPrefix \o <<"{O", "a", JsonClose, "LF", "LF">>,
   DeltaEvent(<<"a">>)
     \o DataPrefix \o <<"[", "D", "O", "N", "E", "]", "LF", "LF">>,
   DeltaEvent(TokenE) \o TokenP}

\* bodies of text_delta events with more text than the accumulator keeps:
\* one long delta, with an open "[" that is older than tokenSuffixLen bytes;
\* three deltas that add up, the last with a closed bracket
LongBodies ==
  {DeltaEvent(<<"[">> \o Rep("a", 2 * tokenSuffixLen)),
   Events(<<Rep("a", 20), Rep("a", tokenSuffixLen - 20),
            <<"b">> \o TokenE \o <<"c">>>>)}

UpstreamBodies == DeltaBodies \cup PlainBodies \cup OtherBodies \cup LongBodies

\* how a source may end
ReadErrs == {"EOF", "error"}

\* the largest number of bytes a Read returns, short of "all that is left"
MaxRead == 2

InitStream ==
  /\ InitAnon
  /\ useAI = FALSE

NextStream ==
  \/ \E c \in Callers :
       /\ \A i \in Streams : streams[i].pc = "idle"
       /\ AnonymizeTextCall(c, <<"p1", "e1">>, "s1")
       /\ UNCHANGED notAnon
  \/ \E c \in Callers : AnonymizeTextMatch(c) /\ UNCHANGED notAnon
  \/ \E c \in Callers : AnonymizeTextReturn(c) /\ UNCHANGED notAnon
  \/ DeleteSession("s1") /\ UNCHANGED notSession
  \/ \E i \in Streams, body \in UpstreamBodies, e \in ReadErrs :
       /\ \A c \in Callers : calls[c].pc = "idle"
       /\ StreamingDeanonymize(i, body, e, "s1")
       /\ UNCHANGED notStream
  \/ \E i \in Streams, n \in 1..MaxRead :
       StreamRead(i, n) /\ UNCHANGED notStream
  \/ \E i \in Streams :
       /\ streams[i].pc \in {"run", "pass"}
       /\ StreamRead(i, Len(streams[i].src) - streams[i].pos)
       /\ UNCHANGED notStream
  \/ \E i \in Streams : StreamReadErr(i) /\ UNCHANGED notStream
  \/ \E i \in Streams : StreamDone(i) /\ UNCHANGED notStream

SpecStream == InitStream /\ [][NextStream]_vars


(***************************************************************************)
(* Properties of the Detector and the Session Map (SpecAnon).              *)
(***************************************************************************)

\* some compiled pattern matches the element b
IsMatch(b) == \E p \in 1..Len(Patterns) : ReMatch(p, b)

\* result is text with a token of the form [PII_<KIND>_<8hex of the value>]
\* in place of every match, and every other byte as it was
RECURSIVE Masked(_, _)
Masked(text, result) ==
  IF text = <<>> THEN result = <<>>
  ELSE IF IsMatch(text[1])
  THEN \E k \in PIITypes :
         /\ HasPrefix(result, replacement(k, text[1]))
         /\ Masked(Tail(text), From(result, Len(replacement(k, text[1])) + 1))
  ELSE /\ result # <<>>
       /\ result[1] = text[1]
       /\ Masked(Tail(text), Tail(result))

\* a call that has its result
Done(c) == calls[c].pc = "done"

\* C1: with AI detection enabled, the text AnonymizeText returns has a token
\* in place of every match (low-confidence matches included) and none of the
\* matched values, and a call in progress can always take its next step:
\* nothing in it waits for the sidecar, whatever the cache, the in-flight set
\* and the semaphore hold.
C1_LowConfidenceMasked ==
  useAI =>
    \A c \in Callers :
      /\ Done(c) =>
           /\ Masked(calls[c].text, calls[c].result)
           /\ \A v \in Values : ~ContainsRune(calls[c].result, v)
      /\ calls[c].pc = "scan" => ENABLED AnonymizeTextMatch(c)
      /\ calls[c].pc = "dispatch" => ENABLED AnonymizeTextDispatch(c)

\* C1 witness: a call on a text with two low-confidence matches has returned
\* its masked text while the sidecar is still busy with the first value (the
\* semaphore is full), the second value is in flight and neither is cached.
C1_Witness ==
  /\ useAI
  /\ \E c \in Callers :
       /\ Done(c)
       /\ calls[c].text = <<"p1", "p2">>
       /\ Masked(calls[c].text, calls[c].result)
  /\ ollamaSem = ollamaMaxConcurrent
  /\ tasks["p1"]["query"] = 1
  /\ "p2" \in inflight
  /\ DOMAIN cache = {}

\* the session of a finished call is still there to de-anonymize with
Restorable(c) == Done(c) /\ calls[c].sid # "" /\ ~calls[c].deleted

\* C2 (as claimed): DeanonymizeText(AnonymizeText(t, s), s) = t for every
\* text t and non-empty session id s not deleted in between.
C2_RoundTripAlways ==
  \A c \in Callers :
    Restorable(c) =>
      DeanonymizeText(calls[c].result, calls[c].sid) = {calls[c].text}

\* no token of session s occurs in the text t
NoTokenOf(s, t) == \A tok \in DOMAIN Inner(sessions, s) : ~Contains(t, tok)

\* no two different values replaced by the call got the same token
Unambiguous(c) ==
  \A p, q \in calls[c].toks : p[1] = q[1] => p[2] = q[2]

\* C2 (amended): the round trip restores t when t itself contains no token
\* recorded under s and no two different values replaced in t share a token
\* (the callers of this specification run one call at a time, so nothing
\* else is recorded under s between the two calls).
C2_RoundTrip ==
  \A c \in Callers :
    (Restorable(c) /\ NoTokenOf(calls[c].sid, calls[c].text) /\ Unambiguous(c))
      => DeanonymizeText(calls[c].result, calls[c].sid) = {calls[c].text}

\* C2 witness: a finished call that replaced two different values, with its
\* session intact
C2_Witness ==
  \E c \in Callers :
    /\ Restorable(c)
    /\ calls[c].text = <<"p1", "e1">>
    /\ Cardinality(DOMAIN Inner(sessions, calls[c].sid)) >= 2
    /\ NoTokenOf(calls[c].sid, calls[c].text)
    /\ Unambiguous(c)
    /\ calls[c].result # calls[c].text

\* C5 (as claimed): the token a call records for a value is the token every
\* earlier call recorded for that value, whatever the cache held at the time
\* of each call.
C5_SameTokenEveryCall ==
  \A c \in Callers :
    calls[c].pc # "idle" =>
      \A pr \in calls[c].toks : emitted[pr[2]] \subseteq {pr[1]}

(***************************************************************************)
(* Properties of StreamingDeanonymize (SpecStream).                        *)
(***************************************************************************)

\* the concatenation of the delta.text values of the content_block_delta
\* events in a byte sequence
RECURSIVE DeltaTextFold(_, _)
DeltaTextFold(acc, bytes) ==
  IF Len(bytes) = 0 THEN acc
  ELSE IF Len(bytes) = 1
  THEN LET b == bytes[1]
       IN  IF b \in {"{T", "{K", "{t", "{k", "{s"}
           THEN [acc EXCEPT !.inside = TRUE]
           ELSE IF b \in JsonOpens \cup {JsonClose}
           THEN [acc EXCEPT !.inside = FALSE]
           ELSE IF acc.inside
           THEN [acc EXCEPT !.text = Append(@, b)]
           ELSE acc
  ELSE LET half == Len(bytes) \div 2
           mid  == DeltaTextFold(acc, Slice(bytes, 1, half))
       IN  IF mid.text = mid.text
           THEN DeltaTextFold(mid, From(bytes, half + 1))
           ELSE mid

DeltaText(bytes) == DeltaTextFold([inside |-> FALSE, text |-> <<>>], bytes).text

\* the stream has ended and had tokens to replace
Rewritten(i) ==
  streams[i].pc = "closed" /\ DOMAIN streams[i].tokenMap # {}

\* C3: for a session that maps token T to original O, whenever the text of
\* the text_delta events read by StreamingDeanonymize contains T, the text of
\* the events it emits up to the end of the stream is that text with O in the
\* place of T, however the upstream splits the text across events and however
\* much text follows the token.
C3_SplitTokensReplaced ==
  \A i \in Streams :
    Rewritten(i) /\ streams[i].src \in DeltaBodies
      => DeltaText(streams[i].out)
           = Replace(streams[i].tokenMap, DeltaText(streams[i].src))

\* what the goroutine holds and has written after the bytes read so far, as
\* a function of the source and the snapshot alone
OfSnapshot(i) ==
  LET st    == streams[i]
      fresh == [lineBuf |-> <<>>, textAccum |-> <<>>, out |-> <<>>]
      fed   == ProcessBytes(st.tokenMap, fresh, Slice(st.src, 1, st.pos))
  IN  IF st.pc = "closed" THEN FlushAtEnd(st.tokenMap, fed) ELSE fed

\* C7: once StreamingDeanonymize(src, s) has returned, a DeleteSession(s) at
\* any later point does not change the output of the stream: what the stream
\* has written is at every moment determined by the bytes read and the
\* snapshot taken at the call, and a body of plain lines comes out with every
\* token of the snapshot replaced by its original.
C7_DeleteDoesNotChangeOutput ==
  \A i \in Streams :
    /\ streams[i].pc \in {"run", "closed"} /\ DOMAIN streams[i].tokenMap # {}
         => /\ streams[i].out = OfSnapshot(i).out
            /\ streams[i].lineBuf = OfSnapshot(i).lineBuf
            /\ streams[i].textAccum = OfSnapshot(i).textAccum
    /\ Rewritten(i) /\ streams[i].src \in PlainBodies
         => /\ streams[i].out = Replace(streams[i].tokenMap, streams[i].src)
            /\ \A tok \in DOMAIN streams[i].tokenMap :
                 ~Contains(streams[i].out, tok)

\* a stream whose session was deleted before any byte was read has ended, and
\* the tokens read after the delete came out as their originals
C7_Witness ==
  \E i \in Streams :
    /\ Rewritten(i)
    /\ streams[i].deleted = "unread"
    /\ "s1" \notin DOMAIN sessions
    /\ streams[i].src \in PlainBodies
    /\ Contains(streams[i].src, TokenE) /\ Contains(streams[i].src, TokenP)
    /\ Contains(streams[i].out, <<"p1", "a", "e1">>)

(***************************************************************************)
(* Specification of the round trip through the stream: a text is           *)
(* anonymized under session "s1", the result is the source of              *)
(* StreamingDeanonymize and is read one byte per Read.                     *)
(***************************************************************************)

\* texts with lines, comments, data lines, CR LF, literal tokens
RoundTripTexts ==
  {<<"a", "e1", "a">>,
   <<"e1", "LF", "p1", "LF">>,
   <<"a", "LF">>,
   <<"e1", "CR">>,
   <<":", "a", "LF", "e1">>,
   DataPrefix \o <<"e1", "LF">>,
   DataPrefix \o <<"{O", "e1", JsonClose, "LF", "LF">>,
   <<"a", "e1", "CR", "LF", "a">>,
   <<"CR", "LF", "e1">>,
   <<":", "e1", "LF">>,
   DataPrefix \o <<"{T", "e1", JsonClose, "LF">>,
   DataPrefix \o <<"{T", "a", JsonClose, "LF", "e1">>,
   TokenE \o <<"e1">>,
   <<"p1", "p2">>}

InitRoundTrip ==
  /\ InitAnon
  /\ useAI = FALSE

NextRoundTrip ==
  \/ \E c \in Callers, t \in RoundTripTexts :
       AnonymizeTextCall(c, t, "s1") /\ UNCHANGED notAnon
  \/ \E c \in Callers : AnonymizeTextMatch(c) /\ UNCHANGED notAnon
  \/ \E c \in Callers :
       /\ \A i \in Streams : streams[i].pc = "idle"
       /\ AnonymizeTextReturn(c)
       /\ UNCHANGED notAnon
  \/ DeleteSession("s1") /\ UNCHANGED notSession
  \/ \E i \in Streams, c \in Callers, e \in ReadErrs :
       /\ calls[c].pc = "done"
       /\ StreamingDeanonymize(i, calls[c].result, e, calls[c].sid)
       /\ UNCHANGED notStream
  \/ \E i \in Streams : StreamRead(i, 1) /\ UNCHANGED notStream
  \/ \E i \in Streams : StreamReadErr(i) /\ UNCHANGED notStream
  \/ \E i \in Streams : StreamDone(i) /\ UNCHANGED notStream

SpecRoundTrip == InitRoundTrip /\ [][NextRoundTrip]_vars

(***************************************************************************)
(* Properties of the round trip through the stream (SpecRoundTrip).        *)
(***************************************************************************)

\* the stream over the result of call c has ended, and the session still
\* held the tokens of the call when the stream took its snapshot
StreamedBack(c, i) ==
  /\ Done(c)
  /\ streams[i].pc = "closed"
  /\ streams[i].src = calls[c].result
  /\ \A pr \in calls[c].toks : pr[1] \in DOMAIN streams[i].tokenMap

\* the lines of a byte sequence that end in LF, as pairs of first and last
\* index (the LF excluded)
Lines(bytes) ==
  {<<from, to>> \in (1..Len(bytes)) \X (0..Len(bytes)) :
     /\ from = 1 \/ bytes[from - 1] = "LF"
     /\ to >= from - 1
     /\ to < Len(bytes) /\ bytes[to + 1] = "LF"
     /\ \A k \in from..to : bytes[k] # "LF"}

\* no line of the bytes ends in CR, is a comment that holds a token of the
\* map, or is a data line with a content_block_delta text event
StreamSafe(bytes, tokenMap) ==
  \A ln \in Lines(bytes) :
    LET line == Slice(bytes, ln[1], ln[2])
    IN  /\ ~(Len(line) > 0 /\ line[Len(line)] = "CR")
        /\ ~(/\ Len(line) > 0 /\ line[1] = ":"
             /\ \E tok \in DOMAIN tokenMap : Contains(line, tok))
        /\ ~(/\ HasPrefix(line, DataPrefix)
             /\ Unmarshal(From(line, Len(DataPrefix) + 1)).isDeltaText)

Requests == DOMAIN reqs

\* session ids no request in flight holds (8 random bytes, hex encoded)
FreshSessionIds ==
  SessionIds \ {reqs[q].sid : q \in {x \in Requests : reqs[x].pc # "idle"}}

\* request bodies: with a value, without
RequestBodies == {<<"e1">>, <<"a">>}

\* upstream responses: a body with Content-Length, an event stream; the read
\* of either may fail
Responses ==
  {[streaming |-> st, body |-> b, readErr |-> e] :
     st \in BOOLEAN, b \in {TokenE \o <<"LF">>}, e \in ReadErrs}

\* the handler is entered: handleHTTP, or the handler of handleMITMTunnel
Handle(r, via) ==
  /\ reqs[r].pc = "idle"
  /\ calls[r].pc = "idle"
  /\ streams[r].pc = "idle"
  /\ reqs' = [reqs EXCEPT ![r] = [IdleReq EXCEPT !.pc = "anonymize",
                                                 !.via = via]]

\* isAuth, or a plain HTTP request to a host that is no AI domain: the body
\* is not touched.  Also anonymizeRequestBody with no body: "" and no error.
ReqNotAnonymized(r) ==
  /\ reqs[r].pc = "anonymize"
  /\ reqs' = [reqs EXCEPT ![r].pc = "forward"]

\* anonymizeRequestBody fails (read error, or more than maxRequestBody):
\* 413 and return, before a session id exists
ReqBodyRejected(r) ==
  /\ reqs[r].pc = "anonymize"
  /\ reqs' = [reqs EXCEPT ![r].pc = "return", ![r].log = Append(@, "413")]

\* anonymizeRequestBody draws the session id and enters AnonymizeJSON, which
\* runs AnonymizeText over the text of the body
ReqAnonymizeBody(r, body, sessionID) ==
  /\ reqs[r].pc = "anonymize"
  /\ sessionID \in FreshSessionIds
  /\ reqs' = [reqs EXCEPT ![r].pc = "anonymizing", ![r].sid = sessionID]
  /\ AnonymizeTextCall(r, body, sessionID)

\* AnonymizeJSON returns, the body is replaced, DeleteSession is deferred
ReqAnonymized(r) ==
  /\ reqs[r].pc = "anonymizing"
  /\ calls[r].pc = "done"
  /\ reqs' = [reqs EXCEPT
       ![r].pc = "forward",
       ![r].log = @ \o (IF calls[r].toks # {} THEN <<"mapped">> ELSE <<>>)
                    \o <<"anonymized">>]
  /\ AnonymizeTextReturn(r)

\* forward: isPrivateHost(r.URL.Host), 403 and return
ReqForbidden(r) ==
  /\ reqs[r].pc = "forward"
  /\ reqs[r].via = "http"
  /\ reqs' = [reqs EXCEPT ![r].pc = "return", ![r].log = Append(@, "403")]

\* s.transport.RoundTrip(r) is called
ReqRoundTrip(r) ==
  /\ reqs[r].pc = "forward"
  /\ reqs' = [reqs EXCEPT ![r].pc = "roundtrip", ![r].log = Append(@, "sent")]

\* RoundTrip returns an error: 502 and return
ReqBadGateway(r) ==
  /\ reqs[r].pc = "roundtrip"
  /\ reqs' = [reqs EXCEPT ![r].pc = "return", ![r].log = Append(@, "502")]

\* RoundTrip returns the upstream's response
ReqResponse(r, resp) ==
  /\ reqs[r].pc = "roundtrip"
  /\ reqs' = [reqs EXCEPT ![r].pc = "deanonymize",
                          ![r].resp = resp,
                          ![r].log = Append(@, "received")]

\* deanonymizeResponseBody with sessionID == "": nothing is done
ReqDeanonymizeNone(r) ==
  /\ reqs[r].pc = "deanonymize"
  /\ reqs[r].sid = ""
  /\ reqs' = [reqs EXCEPT ![r].pc = "copy"]

\* deanonymizeResponseBody, streaming response: the body becomes the reader
\* that StreamingDeanonymize returns
ReqDeanonymizeStream(r) ==
  /\ reqs[r].pc = "deanonymize"
  /\ reqs[r].sid # ""
  /\ reqs[r].resp.streaming
  /\ reqs' = [reqs EXCEPT ![r].pc = "copystream", ![r].log = Append(@, "stream")]
  /\ StreamingDeanonymize(r, reqs[r].resp.body, reqs[r].resp.readErr,
                          reqs[r].sid)

\* deanonymizeResponseBody, other responses: io.ReadAll, then DeanonymizeText
\* (http.NoBody when the read fails)
ReqDeanonymizeBuffered(r, out) ==
  /\ reqs[r].pc = "deanonymize"
  /\ reqs[r].sid # ""
  /\ ~reqs[r].resp.streaming
  /\ IF reqs[r].resp.readErr # "EOF"
     THEN out = <<>>
     ELSE out \in DeanonymizeText(reqs[r].resp.body, reqs[r].sid)
  /\ reqs' = [reqs EXCEPT ![r].pc = "copy",
                          ![r].resp = [@ EXCEPT !.body = out, !.readErr = "EOF"],
                          ![r].log = Append(@, "deanon")]

\* what the client gets of the bytes written to it
ToClient(r, bytes) == IF reqs[r].gone THEN <<>> ELSE bytes

\* flushingCopy over a body that is no stream of StreamingDeanonymize: it is
\* read to its end (a read error ends the copy as well) and written
ReqCopyBody(r) ==
  /\ reqs[r].pc = "copy"
  /\ reqs' = [reqs EXCEPT
       ![r].pc = "return",
       ![r].client = @ \o ToClient(r, reqs[r].resp.body),
       ![r].log = Append(@, "copied")]

\* flushingCopy, one turn of its loop over the stream: the goroutine reads n
\* bytes of the upstream body and what it writes to the pipe is written on
ReqCopyStream(r, n) ==
  /\ reqs[r].pc = "copystream"
  /\ StreamRead(r, n)
  /\ reqs' = [reqs EXCEPT ![r].client =
                @ \o ToClient(r, From(streams'[r].out, Len(streams[r].out) + 1))]

\* the same when the upstream body ends
ReqCopyStreamEnd(r) ==
  /\ reqs[r].pc = "copystream"
  /\ StreamReadErr(r)
  /\ reqs' = [reqs EXCEPT ![r].client =
                @ \o ToClient(r, From(streams'[r].out, Len(streams[r].out) + 1))]

\* a variant of flushingCopy that returns while the source has more to give
flushingCopyReturnsEarly(r) == streams[r].pc \in {"run", "pass", "closed"}

\* flushingCopy returns when src.Read has returned an error
flushingCopyReturns(r) == streams[r].pc = "closed"

ReqCopyStreamReturn(r) ==
  /\ reqs[r].pc = "copystream"
  /\ flushingCopyReturns(r)
  /\ reqs' = [reqs EXCEPT ![r].pc = "return", ![r].log = Append(@, "copied")]

\* the client goes away while the response is on its way: what is written
\* to it from now on is lost
ClientDisconnect(r) ==
  /\ reqs[r].pc \in {"deanonymize", "copy", "copystream"}
  /\ ~reqs[r].gone
  /\ reqs' = [reqs EXCEPT ![r].gone = TRUE]

\* a variant of the handler that deletes the session after a response only
DeferredDeleteOnResponse(r) ==
  reqs[r].sid # "" /\ "received" \in Range(reqs[r].log)

\* if sessionID != "" { defer s.anon.DeleteSession(sessionID) }
DeferredDelete(r) == reqs[r].sid # ""

\* defer resp.Body.Close(): the first of the deferred calls to run
ReqBodyClose(r) ==
  /\ reqs[r].pc = "return"
  /\ StreamDone(r)
  /\ UNCHANGED reqs

\* the handler returns: the deferred DeleteSession runs
HandlerReturn(r) ==
  /\ reqs[r].pc = "return"
  /\ streams[r].pc # "closed"
  /\ reqs' = [reqs EXCEPT ![r] =
       [IdleReq EXCEPT
          !.log = reqs[r].log
                    \o (IF DeferredDelete(r) THEN <<"deleted">> ELSE <<>>)]]
  /\ IF DeferredDelete(r)
     THEN DeleteSession(reqs[r].sid)
     ELSE UNCHANGED <<anonVars, streams>>

(***************************************************************************)
(* Specification of the proxy: two requests are handled concurrently.      *)
(***************************************************************************)

\* what the steps of a handler that touch the request alone leave alone
notProxy == <<anonVars, streamVars, cacheVars>>

InitProxy ==
  /\ InitAnonWith({1, 2})
  /\ useAI = FALSE

NextProxy ==
  \/ \E r \in Requests, via \in {"http", "mitm"} :
       Handle(r, via) /\ UNCHANGED notProxy
  \/ \E r \in Requests : ReqNotAnonymized(r) /\ UNCHANGED notProxy
  \/ \E r \in Requests : ReqBodyRejected(r) /\ UNCHANGED notProxy
  \/ \E r \in Requests, body \in RequestBodies, s \in SessionIds :
       ReqAnonymizeBody(r, body, s) /\ UNCHANGED <<streamVars, cacheVars>>
  \/ \E r \in Requests : AnonymizeTextMatch(r) /\ UNCHANGED notAnon
  \/ \E r \in Requests : ReqAnonymized(r) /\ UNCHANGED <<streamVars, cacheVars>>
  \/ \E r \in Requests : ReqForbidden(r) /\ UNCHANGED notProxy
  \/ \E r \in Requests : ReqRoundTrip(r) /\ UNCHANGED notProxy
  \/ \E r \in Requests : ReqBadGateway(r) /\ UNCHANGED notProxy
  \/ \E r \in Requests, resp \in Responses :
       ReqResponse(r, resp) /\ UNCHANGED notProxy
  \/ \E r \in Requests : ReqDeanonymizeNone(r) /\ UNCHANGED notProxy
  \/ \E r \in Requests : ReqDeanonymizeStream(r) /\ UNCHANGED <<anonVars, cacheVars>>
  \/ \E r \in Requests :
       \E out \in {<<>>} \cup DeanonymizeText(reqs[r].resp.body, reqs[r].sid) :
         ReqDeanonymizeBuffered(r, out) /\ UNCHANGED notProxy
  \/ \E r \in Requests : ReqCopyBody(r) /\ UNCHANGED notProxy
  \/ \E r \in Requests, n \in {1, Len(TokenE)} :
       /\ reqs[r].pc = "copystream"
       /\ streams[r].pos \in {0, Len(TokenE)}
       /\ ReqCopyStream(r, n)
       /\ UNCHANGED <<anonVars, cacheVars>>
  \/ \E r \in Requests : ReqCopyStreamEnd(r) /\ UNCHANGED <<anonVars, cacheVars>>
  \/ \E r \in Requests : ReqCopyStreamReturn(r) /\ UNCHANGED notProxy
  \/ \E r \in Requests : ReqBodyClose(r) /\ UNCHANGED <<anonVars, cacheVars>>
  \/ \E r \in Requests : ClientDisconnect(r) /\ UNCHANGED notProxy
  \/ \E r \in Requests : HandlerReturn(r) /\ UNCHANGED cacheVars

SpecProxy == InitProxy /\ [][NextProxy]_vars

(***************************************************************************)
(* Properties of the proxy (SpecProxy).                                    *)
(***************************************************************************)

InFlight(r) == reqs[r].pc # "idle"

Has(lg, e) == e \in Range(lg)

\* every e1 in the log stands before every e2
Before(lg, e1, e2) ==
  \A i, j \in 1..Len(lg) : lg[i] = e1 /\ lg[j] = e2 => i < j

\* C6: when the handler of a request for which anonymizeRequestBody created
\* a session id returns, after success, 403, 502 or a client disconnect, the
\* Session Map holds no entry for that id; the Session Map holds entries of
\* requests in flight only, so it is empty when no request is in flight.
C6_SessionDroppedOnReturn ==
  /\ [](DOMAIN sessions
          \subseteq {reqs[r].sid : r \in {x \in Requests : InFlight(x)}})
  /\ [][\A r \in Requests :
          reqs[r].pc = "return" /\ reqs'[r].pc = "idle" /\ reqs[r].sid # ""
            => reqs[r].sid \notin DOMAIN sessions']_vars

\* both handlers have returned, one after a 502 and one after a 403, each
\* had recorded a mapping, and the Session Map is empty
C6_Witness ==
  /\ \A r \in Requests : ~InFlight(r)
  /\ \E r, q \in Requests :
       /\ reqs[r].log = <<"mapped", "anonymized", "sent", "502", "deleted">>
       /\ reqs[q].log = <<"mapped", "anonymized", "403", "deleted">>
  /\ sessions = EmptyMap

\* C8: within one request the steps are strictly ordered: the mappings of
\* the request's session are complete before the round trip starts and do
\* not change until the handler returns; de-anonymization starts only after
\* the response has been received; DeleteSession happens only after the
\* response body has been copied.
C8_StrictOrder ==
  /\ [](\A r \in Requests :
          LET lg == reqs[r].log
          IN  /\ Before(lg, "mapped", "sent") /\ Before(lg, "anonymized", "sent")
              /\ Before(lg, "sent", "received")
              /\ \A e \in {"deanon", "stream"} :
                   Has(lg, e) => Has(lg, "received") /\ Before(lg, "received", e)
              /\ InFlight(r) /\ streams[r].pc # "idle" => Has(lg, "received")
              /\ InFlight(r) /\ Has(lg, "sent") => calls[r].pc = "idle"
              /\ Has(lg, "deleted") /\ Has(lg, "received")
                   => /\ Has(lg, "copied") /\ Before(lg, "copied", "deleted")
                      /\ streams[r].pc \notin {"run", "pass"})
  /\ [][\A r \in Requests :
          Has(reqs[r].log, "sent") /\ InFlight(r) /\ reqs'[r].pc # "idle"
            => Inner(sessions', reqs[r].sid) = Inner(sessions, reqs[r].sid)]_vars

\* a request with a value in its body got a streamed response and its
\* handler has returned
C8_Witness ==
  \E r \in Requests :
    /\ ~InFlight(r)
    /\ reqs[r].log = <<"mapped", "anonymized", "sent", "received", "stream",
                       "copied", "deleted">>
    /\ streams[r].pc = "idle"

(***************************************************************************)
(* Specifications of the s3fifoCache.  SpecCache: two goroutines call Get, *)
(* Set and Delete in any interleaving with the asynchronous deletes.       *)
(* SpecGhost: one goroutine makes enough calls to fill the ghost ring and  *)
(* turn it over.                                                           *)
(***************************************************************************)
\* the keys the cache, the backing store or a goroutine holds
KnownKeys ==
  DOMAIN s3fifo.entries \cup s3fifo.ghostSet \cup DOMAIN backing
    \cup {k \in CacheKeys : deleting[k] > 0}
    \cup ({ops[g].key : g \in Goroutines} \ {""})

\* a scan writes one token
ScanTokens == {"t1"}

\* a scan sets a known key or the next new key; keys that are not known are
\* interchangeable
ScanKeys ==
  LET new == {i \in DOMAIN KeyOrder : KeyOrder[i] \notin KnownKeys}
  IN  KnownKeys \cup {KeyOrder[i] : i \in {j \in new : \A l \in new : j <= l}}

NextCache ==
  \/ \E g \in Goroutines, k \in ScanKeys : started < MaxCalls /\ Get(g, k) /\ UNCHANGED notCache
  \/ \E g \in Goroutines : GetBacking(g) /\ UNCHANGED notCache
  \/ \E g \in Goroutines : GetRewarm(g) /\ UNCHANGED notCache
  \/ \E g \in Goroutines, k \in ScanKeys, t \in CacheTokens :
       started < MaxCalls /\ Set(g, k, t) /\ UNCHANGED notCache
  \/ \E g \in Goroutines : InsertEvict(g) /\ UNCHANGED notCache
  \/ \E g \in Goroutines : InsertUnlock(g) /\ UNCHANGED notCache
  \/ \E g \in Goroutines : SetBacking(g) /\ UNCHANGED notCache
  \/ \E g \in Goroutines, k \in ScanKeys : started < MaxCalls /\ Delete(g, k) /\ UNCHANGED notCache
  \/ \E g \in Goroutines : DeleteBacking(g) /\ UNCHANGED notCache
  \/ \E k \in CacheKeys : AsyncDelete(k) /\ UNCHANGED notCache

\* the key evictFromS is about to evict from S with frequency 0
PoppedCold(c) ==
  IF /\ Len(c.sQueue) > 0
     /\ Head(c.sQueue) \in DOMAIN c.entries
     /\ c.entries[Head(c.sQueue)].freq = 0
  THEN {Head(c.sQueue)}
  ELSE {}

\* a turn of the eviction loop: the key it evicts from S is recorded
ObservedGhost == ghosted' = ghosted \cup PoppedCold(s3fifo)

NextGhost ==
  \/ \E g \in Goroutines, k \in ScanKeys : started < MaxGhostCalls /\ Get(g, k) /\ UNCHANGED notCache
  \/ \E g \in Goroutines : GetBacking(g) /\ UNCHANGED notCache
  \/ \E g \in Goroutines : GetRewarm(g) /\ UNCHANGED notCache
  \/ \E g \in Goroutines, k \in ScanKeys, t \in ScanTokens :
       started < MaxGhostCalls /\ Set(g, k, t) /\ UNCHANGED notCache
  \/ \E g \in Goroutines :
       InsertEvict(g) /\ ObservedGhost
         /\ UNCHANGED <<anonVars, streamVars, proxyVars, hist, hits, written,
                        warm, netVars>>
  \/ \E g \in Goroutines : InsertUnlock(g) /\ UNCHANGED notCache
  \/ \E g \in Goroutines : SetBacking(g) /\ UNCHANGED notCache
  \/ \E g \in Goroutines, k \in ScanKeys : started < MaxGhostCalls /\ Delete(g, k) /\ UNCHANGED notCache
  \/ \E g \in Goroutines : DeleteBacking(g) /\ UNCHANGED notCache
  \/ \E k \in CacheKeys : AsyncDelete(k) /\ UNCHANGED notCache

InitCache ==
  /\ InitAnonymizer({1})
  /\ useAI = FALSE
  /\ InitCacheWith({1, 2}, Capacities)

SpecCache == InitCache /\ [][NextCache]_vars

InitGhost ==
  /\ InitAnonymizer({1})
  /\ useAI = FALSE
  /\ InitCacheWith({1}, Capacities)

SpecGhost == InitGhost /\ [][NextGhost]_vars

(***************************************************************************)
(* Properties of the s3fifoCache.                                          *)
(***************************************************************************)

\* C9: in every state in which the cache mutex is free, under every
\* interleaving of Get, Set and Delete by several goroutines,
\* sQueue.Len() + mQueue.Len() <= capacity.
C9_WithinCapacity ==
  s3fifo.mu = 0 => Len(s3fifo.sQueue) + Len(s3fifo.mQueue) <= s3fifo.capacity

\* the cache is full with the mutex free after an eviction, while one
\* goroutine stands before its backing-store write and the other is in a
\* call too
C9_Witness ==
  /\ s3fifo.mu = 0
  /\ Len(s3fifo.sQueue) + Len(s3fifo.mQueue) = s3fifo.capacity
  /\ s3fifo.ghostCount > 0
  /\ \E g, h \in Goroutines :
       g # h /\ ops[g].pc = "backing.Set" /\ ops[h].pc # "idle"

\* C10: the number of keys in the ghost set never exceeds ghostCap.
C10_GhostBounded ==
  /\ s3fifo.ghostCount <= s3fifo.ghostCap
  /\ Cardinality(s3fifo.ghostSet) <= s3fifo.ghostCap

\* the ring is full and has turned over: a key was added to the full ring
C10_Witness ==
  /\ s3fifo.ghostCount = s3fifo.ghostCap
  /\ s3fifo.ghostHead > 0

\* a Set call stands between its in-memory insert and its backing-store write
SetInProgress ==
  \E g \in Goroutines : ops[g].op = "Set" /\ ops[g].pc \in {"evict", "backing.Set"}

\* C11: in every state in which no Set call is between its in-memory insert
\* and its backing-store write, every key resident in memory (in S or in M)
\* is also present in the backing store.
C11_ResidentInBacking ==
  ~SetInProgress => DOMAIN s3fifo.entries \subseteq DOMAIN backing

\* no call is in progress and no asynchronous delete is pending
Quiescent ==
  /\ \A g \in Goroutines : ops[g].pc = "idle"
  /\ SumOver(deleting, CacheKeys) = 0

\* C12: at quiescence every key of the backing store (all of them were
\* written through the cache) is memory-resident, so every evicted key has
\* been deleted from the store, and the store holds at most capacity keys.
C12_EvictedKeysDeleted ==
  Quiescent =>
    /\ DOMAIN backing \subseteq DOMAIN s3fifo.entries
    /\ Cardinality(DOMAIN backing) <= s3fifo.capacity

(***************************************************************************)
(* SpecSingle: one caller of the s3fifoCache; the call that returned last  *)
(* and what it returned are recorded in hist.                              *)
(***************************************************************************)

\* the calls the single caller makes
MaxSingleCalls == 6

\* the call of g returns with this step: (value, ok) is what a Get returns
Returned(op, key, value, ret, ok) ==
  hist' = [n |-> hist.n + 1, op |-> op, key |-> key, value |-> value,
           ret |-> ret, ok |-> ok, promoted |-> <<>>]

\* a step of g that is part of a call: the call is recorded when it returns
Observed(g) ==
  IF ops'[g].pc = "idle"
  THEN IF ops[g].op = "Get"
       THEN Returned("Get", ops[g].key, "", ops[g].value, ops[g].value # "")
       ELSE Returned(ops[g].op, ops[g].key, ops[g].value, "", FALSE)
  ELSE UNCHANGED hist

\* the key evictFromS is about to pop from S with a frequency above 0
PoppedHot(c) ==
  IF /\ Len(c.sQueue) > 0
     /\ Head(c.sQueue) \in DOMAIN c.entries
     /\ c.entries[Head(c.sQueue)].freq > 0
  THEN <<Head(c.sQueue)>>
  ELSE <<>>

\* a turn of the eviction loop: the key it promotes is recorded for the call
ObservedEvict ==
  hist' = [hist EXCEPT !.promoted = @ \o PoppedHot(s3fifo)]

\* Get that hits memory returns in the step that takes the mutex
ObservedGet(g, k) ==
  IF k \in DOMAIN s3fifo.entries
  THEN Returned("Get", k, "", s3fifo.entries[k].value, TRUE)
  ELSE UNCHANGED hist

\* the saturation value of the frequency counter
freqMax == 3

\* a step counts the memory hits of the keys in hit; the count of a key starts
\* again when its entry is created, promoted to M or removed
Counted(hit) ==
  hits' = [key \in CacheKeys |->
             IF \/ key \notin DOMAIN s3fifo.entries
                \/ key \notin DOMAIN s3fifo'.entries
                \/ s3fifo'.entries[key].inM # s3fifo.entries[key].inM
             THEN 0
             ELSE IF key \in hit /\ hits[key] < freqMax
                  THEN hits[key] + 1
                  ELSE hits[key]]

NextSingle ==
  \/ \E g \in Goroutines, k \in ScanKeys :
       started < MaxSingleCalls /\ Get(g, k) /\ ObservedGet(g, k)
         /\ Counted({k}) /\ UNCHANGED notCall
  \/ \E g \in Goroutines : GetBacking(g) /\ Observed(g)
         /\ Counted({}) /\ UNCHANGED notCall
  \/ \E g \in Goroutines : GetRewarm(g) /\ Observed(g)
         /\ Counted({}) /\ UNCHANGED notCall
  \/ \E g \in Goroutines, k \in ScanKeys, t \in CacheTokens :
       started < MaxSingleCalls /\ Set(g, k, t) /\ UNCHANGED hist
        
         /\ Counted({}) /\ UNCHANGED notCall
  \/ \E g \in Goroutines : InsertEvict(g) /\ ObservedEvict
         /\ Counted({}) /\ UNCHANGED notCall
  \/ \E g \in Goroutines : InsertUnlock(g) /\ Observed(g)
         /\ Counted({}) /\ UNCHANGED notCall
  \/ \E g \in Goroutines : SetBacking(g) /\ Observed(g)
         /\ Counted({}) /\ UNCHANGED notCall
  \/ \E g \in Goroutines, k \in ScanKeys :
       started < MaxSingleCalls /\ Delete(g, k) /\ UNCHANGED hist
        
         /\ Counted({}) /\ UNCHANGED notCall
  \/ \E g \in Goroutines : DeleteBacking(g) /\ Observed(g)
         /\ Counted({}) /\ UNCHANGED notCall
  \/ \E k \in CacheKeys : AsyncDelete(k) /\ UNCHANGED hist
         /\ Counted({}) /\ UNCHANGED notCall

InitSingle ==
  /\ InitAnonymizer({1})
  /\ useAI = FALSE
  /\ InitCacheWith({1}, Capacities)

SpecSingle == InitSingle /\ [][NextSingle]_vars

\* C13: with a single caller, the Get(k) that follows Set(k, v) returns
\* (v, true), also when that Set overwrote an earlier binding or filled the
\* cache, and the Get(k) that follows Delete(k) returns a miss.
C13_GetAfterSetDelete ==
  [][(hist'.n # hist.n /\ hist'.op = "Get" /\ hist'.key = hist.key)
       => /\ hist.op = "Set" => hist'.ok /\ hist'.ret = hist.value
          /\ hist.op = "Delete" => ~hist'.ok]_vars

\* key is memory-resident, at the tail part of M, with frequency 0
InMFresh(key) ==
  /\ key \in DOMAIN s3fifo.entries
  /\ s3fifo.entries[key].inM
  /\ s3fifo.entries[key].freq = 0
  /\ key \in Range(s3fifo.mQueue)
  /\ key \notin Range(s3fifo.sQueue)

\* C14 as stated: every key popped from S with a frequency above 0 during a
\* call is in M with frequency 0 when that call returns.
C14_PromotedKeyStays ==
  [][hist'.n # hist.n => \A key \in Range(hist.promoted) : InMFresh(key)']_vars

\* C14, amended: the pop of a key with a frequency above 0 moves it to the
\* tail of M with frequency 0 and adds it neither to the ghost set nor to the
\* backing-store deletions; the key promoted last in a call is in M with
\* frequency 0 when the call returns.
C14_PromotedNotEvictedByPop ==
  [][/\ \A g \in Goroutines :
          (ops[g].pc = "evict" /\ overCapacity(s3fifo) /\ s3fifo' # s3fifo)
            => \A key \in Range(PoppedHot(s3fifo)) :
                 /\ InMFresh(key)'
                 /\ s3fifo'.mQueue[Len(s3fifo'.mQueue)] = key
                 /\ (key \in s3fifo'.ghostSet) = (key \in s3fifo.ghostSet)
                 /\ deleting'[key] = deleting[key]
     /\ (hist'.n # hist.n /\ hist.promoted # <<>>)
          => \A key \in {hist.promoted[Len(hist.promoted)]} : InMFresh(key)']_vars

\* a call has promoted two keys: the second promotion overfilled M and the
\* first one was evicted from M, the second one is in M
C14_Witness ==
  /\ Len(hist.promoted) = 2
  /\ hist.promoted[1] \notin DOMAIN s3fifo.entries
  /\ hist.promoted[1] \notin s3fifo.ghostSet
  /\ deleting[hist.promoted[1]] > 0
  /\ InMFresh(hist.promoted[2])
  /\ \E g \in Goroutines : ops[g].pc = "backing.Set"

\* C15 as stated: a key that was evicted from S with frequency 0 and is
\* memory-resident again was placed in M, not in S, whatever happened between
\* the eviction and the insertion.
C15_EvictedKeyReturnsToM ==
  \A key \in ghosted \cap DOMAIN s3fifo.entries :
    s3fifo.entries[key].inM /\ key \notin Range(s3fifo.sQueue)

\* C15, amended: a key that is still in the ghost set when it is inserted is
\* placed at the tail of M with frequency 0 and not in S; a key leaves the
\* ghost set only as the oldest key of the full ring when another key is
\* added, and a key that is no ghost is placed at the tail of S.
C15_GhostKeyReturnsToM ==
  [][/\ \A key \in DOMAIN s3fifo'.entries \ DOMAIN s3fifo.entries :
          IF key \in s3fifo.ghostSet
          THEN /\ InMFresh(key)'
               /\ s3fifo'.mQueue[Len(s3fifo'.mQueue)] = key
          ELSE /\ ~s3fifo'.entries[key].inM
               /\ s3fifo'.entries[key].freq = 0
               /\ s3fifo'.sQueue[Len(s3fifo'.sQueue)] = key
               /\ key \notin Range(s3fifo'.mQueue)
     /\ \A key \in s3fifo.ghostSet \ s3fifo'.ghostSet :
          /\ s3fifo.ghostCount = s3fifo.ghostCap
          /\ key = s3fifo.ghostBuf[s3fifo.ghostHead]
          /\ Cardinality(s3fifo'.ghostSet \ s3fifo.ghostSet) = 1]_vars

\* a key that was evicted from S and is still a ghost is back in M, and a key
\* that was evicted from S and has left the ring is back in S
C15_Witness ==
  /\ \E key \in ghosted \cap s3fifo.ghostSet : InMFresh(key)
  /\ \E key \in ghosted \ s3fifo.ghostSet : key \in Range(s3fifo.sQueue)

Reopen ==
  /\ ~written.reopened
  /\ s3fifo.mu = 0
  /\ \A g \in Goroutines : ops[g].pc = "idle"
  /\ s3fifo' = newS3FIFOCache(s3fifo.capacity)
  /\ deleting' = NoDeletes
  /\ written' = [written EXCEPT !.reopened = TRUE]
  /\ hist' = [NoCall EXCEPT !.n = hist.n + 1, !.op = "Reopen"]
  /\ UNCHANGED <<backing, ops, started>>

\* a step keeps the binding of a key that stays memory-resident, drops the
\* binding of a key that leaves memory, and a Set writes key to value
Written(key, value) ==
  written' =
    IF written.reopened
    THEN written
    ELSE [written EXCEPT !.bind =
            [k \in CacheKeys |->
               IF k \notin DOMAIN s3fifo'.entries THEN ""
               ELSE IF k = key THEN value
               ELSE written.bind[k]]]

notRestart == <<anonVars, streamVars, proxyVars, ghosted, warm, netVars>>

NextRestart ==
  \/ \E g \in Goroutines, k \in ScanKeys :
       started < MaxSingleCalls /\ Get(g, k) /\ ObservedGet(g, k)
         /\ Counted({k}) /\ Written("", "") /\ UNCHANGED notRestart
  \/ \E g \in Goroutines :
       GetBacking(g) /\ Observed(g)
         /\ Counted({}) /\ Written("", "") /\ UNCHANGED notRestart
  \/ \E g \in Goroutines :
       GetRewarm(g) /\ Observed(g)
         /\ Counted({}) /\ Written("", "") /\ UNCHANGED notRestart
  \/ \E g \in Goroutines, k \in ScanKeys, t \in ScanTokens :
       started < MaxSingleCalls /\ Set(g, k, t) /\ UNCHANGED hist
         /\ Counted({}) /\ Written(k, t) /\ UNCHANGED notRestart
  \/ \E g \in Goroutines :
       InsertEvict(g) /\ ObservedEvict
         /\ Counted({}) /\ Written("", "") /\ UNCHANGED notRestart
  \/ \E g \in Goroutines :
       InsertUnlock(g) /\ Observed(g)
         /\ Counted({}) /\ Written("", "") /\ UNCHANGED notRestart
  \/ \E g \in Goroutines :
       SetBacking(g) /\ Observed(g)
         /\ Counted({}) /\ Written("", "") /\ UNCHANGED notRestart
  \/ \E g \in Goroutines, k \in ScanKeys :
       started < MaxSingleCalls /\ Delete(g, k) /\ UNCHANGED hist
         /\ Counted({}) /\ Written("", "") /\ UNCHANGED notRestart
  \/ \E g \in Goroutines :
       DeleteBacking(g) /\ Observed(g)
         /\ Counted({}) /\ Written("", "") /\ UNCHANGED notRestart
  \/ \E k \in CacheKeys :
       AsyncDelete(k) /\ UNCHANGED hist
         /\ Counted({}) /\ Written("", "") /\ UNCHANGED notRestart
  \/ Reopen /\ Counted({}) /\ UNCHANGED notRestart

SpecRestart == InitSingle /\ [][NextRestart]_vars

\* C17: the first Get after the cache was opened again, for a key whose
\* binding was written by Set and neither evicted nor deleted before the
\* close, returns that binding and leaves the key memory-resident.
C17_BindingSurvivesRestart ==
  [][(/\ hist.op = "Reopen"
      /\ hist'.n # hist.n
      /\ hist'.op = "Get"
      /\ written.bind[hist'.key] # "")
       => /\ hist'.ok
          /\ hist'.ret = written.bind[hist'.key]
          /\ hist'.key \in DOMAIN s3fifo'.entries
          /\ s3fifo'.entries[hist'.key].value = written.bind[hist'.key]]_vars


(***************************************************************************)
(* Specification of the warm-up goroutines: two goroutines call            *)
(* AnonymizeText with low-confidence values while the goroutines started   *)
(* by dispatchOllamaAsync run.                                             *)
(***************************************************************************)

\* the texts of the callers: phone numbers, which are low-confidence matches
WarmTexts == { <<"p1">>, <<"p2", "p1">> }

\* the value dispatchOllamaAsync is called with by caller c
Dispatched(c) == calls[c].rest[FirstMatch(calls[c].pat, calls[c].rest)]

\* dispatchOllamaAsync returns at "already in progress"
ObservedDispatch(c) ==
  warm' = IF Dispatched(c) \in inflight
          THEN [warm EXCEPT !.skipped = @ \cup {Dispatched(c)}]
          ELSE warm

\* the select of the goroutine takes the default branch
ObservedAcquire(v) ==
  warm' = IF ollamaSem < ollamaMaxConcurrent
          THEN warm
          ELSE [warm EXCEPT !.busy = @ \cup {v}]

\* the goroutine for v ends
ObservedCleanup(v) == warm' = [warm EXCEPT !.ended = @ \cup {v}]

notWarm ==
  <<streamVars, proxyVars, s3fifo, backing, deleting, ops, started, hist,
    ghosted, hits, written, netVars>>

\* the calls of AnonymizeText the callers make in all
MaxWarmCalls == 2

\* a step of the warm-up goroutine for value v
WarmupStep(v) ==
  \/ TaskAcquire(v) /\ ObservedAcquire(v) /\ UNCHANGED notWarm
  \/ TaskQuery(v) /\ UNCHANGED notAnon
  \/ TaskRelease(v) /\ UNCHANGED notAnon
  \/ TaskCleanup(v) /\ ObservedCleanup(v) /\ UNCHANGED notWarm

NextWarm ==
  \/ \E c \in Callers, t \in WarmTexts :
       /\ started < MaxWarmCalls
       /\ AnonymizeTextCall(c, t, "")
       /\ started' = started + 1
       /\ UNCHANGED <<streamVars, proxyVars, s3fifo, backing, deleting, ops,
                      hist, ghosted, hits, written, warm, netVars>>
  \/ \E c \in Callers : AnonymizeTextMatch(c) /\ UNCHANGED notAnon
  \/ \E c \in Callers :
       AnonymizeTextDispatch(c) /\ ObservedDispatch(c) /\ UNCHANGED notWarm
  \/ \E c \in Callers : AnonymizeTextReturn(c) /\ UNCHANGED notAnon
  \/ \E v \in Values : WarmupStep(v)

InitWarm ==
  /\ InitAnonymizer({1, 2})
  /\ useAI = TRUE
  /\ InitCacheWith({}, {0})

SpecWarm == InitWarm /\ [][NextWarm]_vars

\* the scheduler runs every goroutine that can take a step, and
\* queryOllamaHTTP returns (its HTTP client has a timeout)
SpecWarmFair ==
  SpecWarm /\ \A v \in Values : WF_vars(WarmupStep(v))

\* C18: at most one warm-up goroutine exists per value, and the value is in
\* the in-flight set exactly while its goroutine exists; a goroutine is
\* started only by a step that finds the value outside the in-flight set and
\* puts it in, whatever the interleaving of the callers.
C18_OneWarmupPerValue ==
  /\ [](\A v \in Values : /\ TaskCount(v) <= 1
                           /\ TaskCount(v) = 1 <=> v \in inflight)
  /\ [][\A v \in Values :
          TaskCount(v)' > TaskCount(v)
            => v \notin inflight /\ v \in inflight']_vars

\* a caller's dispatch has found its value in flight while the other caller
\* is inside AnonymizeText as well
C18_Witness ==
  /\ \E v \in warm.skipped : TaskCount(v) = 1 /\ v \notin warm.ended
  /\ \A c \in Callers : calls[c].pc # "idle"

\* the warm-up goroutines that hold a semaphore slot
SlotsHeld == SumOver([v \in Values |-> tasks[v]["query"] + tasks[v]["release"]],
                     Values)

\* C19: at most ollamaMaxConcurrent warm-up goroutines are inside the sidecar
\* query; the select of a goroutine is never blocked, and a goroutine that
\* finds every slot taken goes straight to its end: it takes no slot, makes
\* no query, writes nothing to the cache and does not wait at the select.
C19_SemaphoreBoundsQueries ==
  /\ [](/\ SumOver([v \in Values |-> tasks[v]["query"]], Values)
             <= ollamaMaxConcurrent
        /\ SlotsHeld = ollamaSem
        /\ \A v \in Values : tasks[v]["acquire"] > 0 => ENABLED TaskAcquire(v))
  /\ [][\A v \in Values :
          (tasks'[v]["acquire"] < tasks[v]["acquire"]
             /\ ollamaSem >= ollamaMaxConcurrent)
            => /\ tasks'[v]["cleanup"] = tasks[v]["cleanup"] + 1
               /\ tasks'[v]["query"] = tasks[v]["query"]
               /\ tasks'[v]["acquire"] = tasks[v]["acquire"] - 1
               /\ ollamaSem' = ollamaSem
               /\ cache' = cache]_vars

\* a goroutine has found the slot taken by the goroutine of another value,
\* which is still inside its query
C19_Witness ==
  \E v \in warm.busy, w \in Values :
    /\ w # v
    /\ tasks[w]["query"] = 1
    /\ tasks[v]["cleanup"] = 1
    /\ w \notin warm.ended /\ v \notin warm.ended
    /\ cache = EmptyMap

\* C20: every warm-up goroutine ends, and its value has then left the
\* in-flight set; the semaphore counts exactly the goroutines between their
\* successful select and their release, so that with no goroutine alive no
\* slot is taken and no value is in flight; a goroutine's last step removes
\* its value and leaves the semaphore alone; and a dispatch for a value that
\* is not in flight starts a goroutine for it.
C20_WarmupEndsAndCleansUp ==
  /\ \A v \in Values : (v \in inflight) ~> (v \notin inflight)
  /\ \A v \in Values : (TaskCount(v) > 0) ~> (TaskCount(v) = 0)
  /\ [](/\ SlotsHeld = ollamaSem
        /\ (\A v \in Values : TaskCount(v) = 0)
              => ollamaSem = 0 /\ inflight = {})
  /\ [][/\ \A v \in Values :
            /\ tasks'[v]["cleanup"] < tasks[v]["cleanup"]
                 => v \notin inflight' /\ ollamaSem' = ollamaSem
            /\ tasks'[v]["release"] < tasks[v]["release"]
                 => ollamaSem' = ollamaSem - 1
            /\ (tasks'[v]["acquire"] < tasks[v]["acquire"]
                  /\ tasks'[v]["query"] = tasks[v]["query"])
                 => ollamaSem' = ollamaSem
        /\ \A c \in Callers :
             (calls[c].pc = "dispatch" /\ calls'[c] # calls[c])
               => \A v \in {Dispatched(c)} :
                    v \notin inflight
                      => v \in inflight' /\ tasks'[v]["acquire"] = 1]_vars

\* a goroutine that found the semaphore full has ended, and a later miss
\* for its value has started a new goroutine
C20_Witness ==
  \E v \in warm.busy \cap warm.ended :
    /\ TaskCount(v) = 1
    /\ v \in inflight
    /\ v \notin DOMAIN cache


(***************************************************************************)
(* Specification of the dial function: it is called with any address and   *)
(* the resolver answers as it likes.                                       *)
(***************************************************************************)
notNet == <<anonVars, streamVars, proxyVars, s3fifo, backing, deleting,
            ops, started, hist, ghosted, hits, written, warm>>

notServe == <<notNet, jsonCall, certs, scan, tunnels, registry>>

notDial == <<notServe, srv>>

NextDial ==
  \/ \E addr \in DialAddrs : DialCall(addr) /\ UNCHANGED notDial
  \/ \E res \in LookupIPAddr(dial.addr.host) :
       DialLookup(res) /\ UNCHANGED notDial
  \/ DialCheck /\ UNCHANGED notDial
  \/ \E ok \in BOOLEAN : DialConnect(ok) /\ UNCHANGED notDial
  \/ DialReturn /\ UNCHANGED notDial

SpecDial == InitAnon /\ [][NextDial]_vars

\* the destination is a literal private IP or one of the resolved addresses
\* is private (PrivateIPs lists the addresses of the model that lie in one of
\* the private prefixes)
PrivateDestination ==
  \/ /\ dial.pc # "idle"
     /\ dial.addr.host.name = ""
     /\ dial.addr.host.ip \in PrivateIPs
  \/ \E i \in 1..Len(dial.ips) : dial.ips[i] \in PrivateIPs

\* C21: a call of the dial function opens no connection when its destination
\* is a literal private IP or one resolved address is private, nor when the
\* lookup fails or returns no address (it then returns an error); a
\* connection it opens goes to the first resolved address, an IP and never
\* the host name, with the port of the call.
C21_DialsOnlyCheckedAddress ==
  /\ PrivateDestination => dial.opened = <<>>
  /\ (dial.pc = "done" /\ dial.ips = <<>>)
       => dial.opened = <<>> /\ dial.err # ""
  /\ \A i \in 1..Len(dial.opened) :
       /\ dial.opened[i].host.name = ""
       /\ dial.ips # <<>>
       /\ dial.opened[i].host.ip = dial.ips[1]
       /\ dial.opened[i].port = dial.addr.port
       /\ dial.opened[i].host.ip \notin PrivateIPs
  /\ (dial.pc = "done" /\ dial.ips # <<>> /\ ~PrivateDestination)
       => Len(dial.opened) = 1

\* a host name resolved to two public addresses and the first one was dialed
C21_Witness ==
  /\ dial.pc = "done"
  /\ dial.addr.host.name # ""
  /\ Len(dial.ips) = 2
  /\ dial.ips[1] # dial.ips[2]
  /\ dial.opened = <<[host |-> HostOfIP(dial.ips[1]), port |-> "443"]>>


(***************************************************************************)
(* Specification of the proxy server's routing: requests arrive one after  *)
(* the other, the resolver answers as it likes.                            *)
(***************************************************************************)
ServeAddrs == {[host |-> h, port |-> p] : h \in ServeHosts, p \in {"", "443"}}

NextServe ==
  \/ \E ca \in BOOLEAN, hijack \in BOOLEAN, addr \in ServeAddrs :
       ServeHTTP(ca, hijack, "CONNECT", addr, <<>>, IdleSrv.body)
         /\ UNCHANGED notServe
  \/ \E ca \in BOOLEAN, addr \in ServeAddrs, path \in ServePaths,
        body \in ServeBodies :
       ServeHTTP(ca, TRUE, "POST", addr, path, body) /\ UNCHANGED notServe
  \/ handleTunnel /\ UNCHANGED notServe
  \/ OpaqueTunnel /\ UNCHANGED notServe
  \/ OpaqueDialed /\ UNCHANGED notServe
  \/ \E path \in ServePaths, body \in ServeBodies :
       MitmRequest(path, body) /\ UNCHANGED notServe
  \/ handleHTTP /\ UNCHANGED notServe
  \/ Anonymize /\ UNCHANGED notServe
  \/ Forward /\ UNCHANGED notServe
  \/ \E res \in LookupIPAddr(dial.addr.host) :
       DialLookup(res) /\ UNCHANGED <<notServe, srv>>
  \/ DialCheck /\ UNCHANGED <<notServe, srv>>
  \/ \E ok \in BOOLEAN : DialConnect(ok) /\ UNCHANGED <<notServe, srv>>
  \/ RoundTripped /\ UNCHANGED notServe
  \/ ServeReturn /\ UNCHANGED notServe
  \/ MitmClose /\ UNCHANGED notServe

InitServe ==
  /\ InitAnon
  /\ useAI = FALSE

SpecServe == InitServe /\ [][NextServe]_vars

\* C22: when the destination of a request was refused as private, by the
\* literal test or by the dial function, the client has received 403 with
\* the generic message, on every route.
C22_PrivateRefusedWith403 ==
  (srv.pc = "done" /\ srv.refused)
    => srv.client[Len(srv.client)] = Status(403, "forbidden")


\* the part of it that holds: a literal private address, refused before any
\* dial, is answered 403 "forbidden"
LiteralRefusedWith403 ==
  (srv.pc = "done" /\ srv.refused /\ srv.dials = 0)
    => srv.client[Len(srv.client)] = Status(403, "forbidden")

\* a CONNECT request that handleTunnel has routed
Routed == srv.method = "CONNECT" /\ srv.route # ""

\* the hosts of the model that are auth by their name: in s.authDomains or
\* with one of the prefixes
AuthHosts == {"auth.ai.test", "idp.ai.test", "accounts.example.com"}

\* the paths of the model that start with a configured auth path
AuthPathsMatched == { <<"/", "oauth", "/", "token">>, <<"/", "oauth", "x">> }

AuthRequest ==
  /\ srv.route \in {"http", "mitm"}
  /\ srv.pc \in {"forward", "roundtrip", "done"}
  /\ \/ srv.addr.host.name \in AuthHosts
     \/ srv.path \in AuthPathsMatched

\* C24: for a request classified as auth, on the direct-HTTP and on the
\* intercepted route, the Detector is not invoked, no session is created, the
\* body is forwarded unchanged and the response is not de-anonymized.
C24_AuthRequestsUntouched ==
  AuthRequest =>
    /\ ~srv.detector
    /\ srv.sid = "" /\ ~srv.session
    /\ srv.forwarded = "unchanged"
    /\ ~srv.deanon
    /\ srv.isAuth

C24_Witness ==
  /\ srv.pc = "done" /\ srv.route = "mitm"
  /\ srv.path = <<"/", "oauth", "/", "token">>
  /\ srv.body = [len |-> 1, pii |-> TRUE, readErr |-> FALSE]
  /\ srv.client[Len(srv.client)] = Status(200, "")
  /\ srv.forwarded = "unchanged"

\* a request whose body the handler anonymizes (AI domain or intercepted
\* connection, not auth) with a body above the limit, handled to its end
OversizedRequest ==
  /\ srv.pc = "done"
  /\ \/ srv.route = "mitm"
     \/ srv.route = "http"
          /\ srv.addr.host.name \in {"api.ai.test", "auth.ai.test",
                                     "idp.ai.test"}
  /\ srv.addr.host.name \notin AuthHosts
  /\ srv.path \notin AuthPathsMatched
  /\ srv.body.len > 52428800

\* C25: when the body of a request that is to be anonymized exceeds 50 MiB
\* the client receives 413, no upstream connection is made for the request
\* and no Session Map entry is created for it.
C25_OversizedBodyRejected ==
  OversizedRequest =>
    /\ srv.client[Len(srv.client)] = Status(413, "payload too large")
    /\ srv.dials = 0 /\ dial.opened = <<>>
    /\ srv.sid = "" /\ ~srv.session /\ ~srv.detector
    /\ srv.forwarded = ""

C25_Witness ==
  /\ srv.pc = "done" /\ srv.route = "mitm"
  /\ srv.body = [len |-> maxRequestBody + 1, pii |-> TRUE, readErr |-> FALSE]
  /\ srv.client = <<Status(200, ""), Status(413, "payload too large")>>


(***************************************************************************)
(* Order of the emitted stream (SpecStream).                               *)
(***************************************************************************)

\* the line of bytes that ends with the LF at position pos
LineEndingAt(bytes, pos) ==
  LET before == {k \in 1..(pos - 1) : bytes[k] = "LF"}
      from   == IF before = {} THEN 1
                ELSE 1 + CHOOSE k \in before : \A j \in before : j <= k
  IN  Slice(bytes, from, pos - 1)

\* the line is a data line that carries a text_delta or thinking_delta
IsDeltaLine(line) ==
  /\ HasPrefix(line, DataPrefix)
  /\ Len(line) > Len(DataPrefix)
  /\ line[Len(DataPrefix) + 1] \in {"{T", "{K"}

\* C26: the stream preserves the upstream order and drops no text: when a
\* line other than a delta event (and other than the blank line that ends an
\* event) has been emitted, all delta text that the upstream sent before that
\* line has been emitted before it, once and in order; and at the end of the
\* stream all delta text has been emitted.
C26_TextKeepsItsPlace ==
  \A i \in Streams :
    LET st == streams[i]
    IN  /\ st.pc \in {"run", "closed"}
        /\ DOMAIN st.tokenMap # {}
        /\ \/ st.pc = "closed"
           \/ /\ st.pos >= 1
              /\ st.src[st.pos] = "LF"
              /\ LineEndingAt(st.src, st.pos) # <<>>
              /\ ~IsDeltaLine(LineEndingAt(st.src, st.pos))
        => Replace(st.tokenMap, DeltaText(st.out))
             = Replace(st.tokenMap, DeltaText(Slice(st.src, 1, st.pos)))

\* the part of it that holds: at a non-delta data event that is a JSON
\* object, and at the end of the stream
TextFlushedAtEvents ==
  \A i \in Streams :
    LET st == streams[i]
    IN  /\ st.pc \in {"run", "closed"}
        /\ DOMAIN st.tokenMap # {}
        /\ \/ st.pc = "closed"
           \/ /\ st.pos >= 1
              /\ st.src[st.pos] = "LF"
              /\ HasPrefix(LineEndingAt(st.src, st.pos), DataPrefix \o <<"{O">>)
              /\ ~Unmarshal(From(LineEndingAt(st.src, st.pos),
                                 Len(DataPrefix) + 1)).err
        => /\ Replace(st.tokenMap, DeltaText(st.out))
                = Replace(st.tokenMap, DeltaText(Slice(st.src, 1, st.pos)))
           /\ st.textAccum = <<>>


\* what the goroutine held when its source ended, computed from the source
AtSourceEnd(i) ==
  ProcessBytes(streams[i].tokenMap,
               [lineBuf |-> <<>>, textAccum |-> <<>>, out |-> <<>>],
               streams[i].src)

\* C27: when the source reaches EOF or a read error the goroutine emits the
\* pending bytes (the partial last line, then the text accumulator as one
\* synthetic event, tokens replaced) exactly once, closes the pipe and the
\* source and ends; an error other than EOF reaches the reader behind that
\* data, and EOF is no error for the reader.
C27_PendingFlushedThenClosed ==
  \A i \in Streams :
    Rewritten(i) =>
      LET st   == streams[i]
          held == AtSourceEnd(i)
      IN  /\ st.pos = Len(st.src)
          /\ st.out =
               held.out \o Replace(st.tokenMap, held.lineBuf)
                 \o (IF held.textAccum = <<>> THEN <<>>
                     ELSE DataPrefix \o <<"{s">>
                            \o Replace(st.tokenMap, held.textAccum)
                            \o <<JsonClose, "LF", "LF">>)
          /\ st.lineBuf = <<>> /\ st.textAccum = <<>>
          /\ st.srcClosed
          /\ st.pipeErr <=> st.readErr = "error"

\* a text event with a token and a last line with another token, ended by a
\* read error: both came out, replaced, in front of the error
C27_Witness ==
  \E i \in Streams :
    /\ Rewritten(i)
    /\ streams[i].src = DeltaEvent(TokenE) \o TokenP
    /\ streams[i].readErr = "error" /\ streams[i].pipeErr
    /\ streams[i].out =
         DataPrefix \o <<"{t", JsonClose, "LF", "LF", "p1">>
           \o DataPrefix \o <<"{s", "e1", JsonClose, "LF", "LF">>


(***************************************************************************)
(* Specification of AnonymizeJSON: request bodies of every shape are       *)
(* anonymized under a session that may already hold tokens.                *)
(***************************************************************************)

\* user messages without and with PII
UserMsgs ==
  << Obj([role |-> Str(<<"user">>), content |-> Str(<<"a">>)]),
     Obj([role |-> Str(<<"user">>), content |-> Str(<<"a", "e1">>)]) >>

\* system messages: empty content, a prompt, content parts, no content
SystemMsgs ==
  << Obj([role |-> Str(<<"system">>), content |-> Str(<<>>)]),
     Obj([role |-> Str(<<"system">>), content |-> Str(<<"s">>)]),
     Obj([role |-> Str(<<"system">>),
          content |-> Arr(<<Obj([type |-> Str(<<"text">>),
                                 text |-> Str(<<"s">>)])>>)]),
     Obj([role |-> Str(<<"system">>)]) >>

\* the values of "messages": no array, an empty array, a user message alone,
\* behind or in front of a system message, behind an element that is no object
MessageList(kind, m, u) ==
  CASE kind = 1 -> Str(<<"p1">>)
    [] kind = 2 -> Arr(<<>>)
    [] kind = 3 -> Arr(<<UserMsgs[u]>>)
    [] kind = 4 -> Arr(<<SystemMsgs[m], UserMsgs[u]>>)
    [] kind = 5 -> Arr(<<UserMsgs[u], SystemMsgs[m]>>)
    [] kind = 6 -> Arr(<<Str(<<"e1">>), UserMsgs[u]>>)

\* the values of "system"
SystemValues == << Str(<<>>), Str(<<"s">>), Arr(<<>>), Null >>

\* a request body with "model", with "system" unless sys = 0 and with
\* "messages" unless kind = 0
ChatBody(sys, kind, m, u) ==
  IF sys = 0 /\ kind = 0
  THEN Obj([model |-> Str(<<"p1">>)])
  ELSE IF kind = 0
  THEN Obj([model |-> Str(<<"p1">>), system |-> SystemValues[sys]])
  ELSE IF sys = 0
  THEN Obj([model |-> Str(<<"p1">>), messages |-> MessageList(kind, m, u)])
  ELSE Obj([model |-> Str(<<"p1">>), system |-> SystemValues[sys],
            messages |-> MessageList(kind, m, u)])

\* other bodies: embedding requests, values that are no objects, no JSON
OtherJSONBodies ==
  << Obj([input |-> Str(<<"a">>)]),
     Obj([input |-> Str(<<"e1", "a", "p1">>)]),
     Arr(<<Str(<<"e1">>)>>),
     Str(<<"e1">>),
     Null,
     NotJSON(<<"a", "e1">>) >>

notJSON == <<streamVars, proxyVars, s3fifo, backing, deleting, ops, started,
             hist, ghosted, hits, written, warm, dial, srv, certs, scan,
             tunnels, registry>>

InitJSON ==
  /\ InitAnon
  /\ useAI = FALSE

NextJSON ==
  \/ \E sys \in 0..Len(SystemValues), kind \in 0..6,
        m \in DOMAIN SystemMsgs, u \in DOMAIN UserMsgs,
        requestID \in AnySessionIds :
       AnonymizeJSON(ChatBody(sys, kind, m, u), requestID)
         /\ UNCHANGED notJSON
  \/ \E n \in DOMAIN OtherJSONBodies, requestID \in AnySessionIds :
       AnonymizeJSON(OtherJSONBodies[n], requestID) /\ UNCHANGED notJSON
  \/ AnonymizeJSONReturn /\ UNCHANGED <<notJSON, sessions>>
  \/ \E s \in SessionIds : DeleteSession(s) /\ UNCHANGED notSession

SpecJSON == InitJSON /\ [][NextJSON]_vars

\* the structure of a value: every place in it with the type found there
RECURSIVE Shape(_, _)
Shape(path, v) ==
  {<<path, v.t>>}
    \cup UNION {Shape(Append(path, k), v.v[k]) : k \in DOMAIN v.v}

\* the instruction stands somewhere in the value
RECURSIVE InstructionIn(_)
InstructionIn(v) ==
  \/ "PRIVACY TOKENS" \in Range(v.s)
  \/ \E k \in DOMAIN v.v : InstructionIn(v.v[k])

\* the body is a JSON object of chat shape
ChatShape(body) ==
  /\ body.t = "object"
  /\ \/ "system" \in DOMAIN body.v /\ body.v["system"].t \in {"string", "array"}
     \/ "messages" \in DOMAIN body.v /\ body.v["messages"].t = "array"

\* C28: AnonymizeJSON adds the PII instruction if and only if the session has
\* at least one recorded token and the body is a JSON object of chat shape;
\* in every other case the output has the structure of the input.
C28_InstructionIffTokensAndChat ==
  jsonCall.pc = "done" =>
    LET due == jsonCall.tokenCount > 0 /\ ChatShape(jsonCall.body)
    IN  /\ InstructionIn(jsonCall.out) <=> due
        /\ ~due => Shape(<<>>, jsonCall.out) = Shape(<<>>, jsonCall.body)

\* the chat shapes that injectPIIInstruction serves: "system" is a string or
\* an array, or "messages" is an array whose first system message, if there
\* is one, has a string content
Served(body) ==
  /\ ChatShape(body)
  /\ \/ "system" \in DOMAIN body.v /\ body.v["system"].t \in {"string", "array"}
     \/ LET msgs == Items(body.v["messages"])
            sys  == {i \in DOMAIN msgs : IsSystemMsg(msgs[i])}
        IN  \A i \in sys :
              (\A j \in sys : i <= j)
                => /\ "content" \in DOMAIN msgs[i].v
                   /\ msgs[i].v["content"].t = "string"

\* the part of it that holds
InstructionIffTokensAndServed ==
  jsonCall.pc = "done" =>
    LET due == jsonCall.tokenCount > 0 /\ Served(jsonCall.body)
    IN  /\ InstructionIn(jsonCall.out) <=> due
        /\ ~due => Shape(<<>>, jsonCall.out) = Shape(<<>>, jsonCall.body)

(***************************************************************************)
(* SpecCert: two goroutines call CertFor for any hosts, generation may     *)
(* fail, cached leaves expire.                                             *)
(***************************************************************************)
notCert == <<notNet, dial, srv, jsonCall, scan, tunnels, registry>>

InitCert ==
  /\ InitAnon
  /\ useAI = FALSE

NextCert ==
  \/ \E g \in CertCallers, host \in CertHosts :
       CertForLookup(g, host) /\ UNCHANGED notCert
  \/ \E g \in CertCallers,
        err \in {"generate leaf key", "generate serial", "sign leaf cert"} :
       CertForFail(g, err) /\ UNCHANGED notCert
  \/ \E g \in CertCallers : CertForStore(g) /\ UNCHANGED notCert
  \/ \E g \in CertCallers : CertForReturn(g) /\ UNCHANGED notCert
  \/ \E host \in CertHosts : LeafExpires(host) /\ UNCHANGED notCert

SpecCert == InitCert /\ [][NextCert]_vars

\* the call of g has inserted its leaf in this step
CertInserted(g) ==
  /\ certs.calls[g].pc = "generating"
  /\ certs'.calls[g].pc = "returned"
  /\ certs'.calls[g].err = ""

\* C29: whatever the interleaving of the calls of CertFor, the cache of
\* leaves never holds more than maxCertCache entries, and an insertion of a
\* new host into a cache that holds maxCertCache entries leaves a cache that
\* holds the newly minted leaf and nothing else
C29_CertCacheBounded ==
  /\ [](Cardinality(DOMAIN certs.cache) <= maxCertCache)
  /\ [][\A g \in CertCallers :
          (/\ CertInserted(g)
           /\ certs.calls[g].host \notin DOMAIN certs.cache
           /\ Cardinality(DOMAIN certs.cache) >= maxCertCache)
          => (/\ DOMAIN certs'.cache = {certs.calls[g].host}
              /\ certs'.cache[certs.calls[g].host] = certs'.calls[g].leaf
              /\ certs'.calls[g].leaf.by = g)]_vars

\* a call has inserted the leaf of a new host into a full cache and the
\* cache holds that leaf alone, while the other call is still generating a
\* leaf of its own
C29_Witness ==
  \E g \in CertCallers, o \in CertCallers :
    /\ g # o
    /\ certs.calls[g].pc = "returned"
    /\ certs.calls[g].err = ""
    /\ certs.calls[g].leaf.by = g
    /\ Cardinality(certs.calls[g].seen) = maxCertCache
    /\ certs.calls[g].host \notin certs.calls[g].seen
    /\ DOMAIN certs.cache = {certs.calls[g].host}
    /\ certs.calls[o].pc = "generating"
    /\ certs.calls[o].host # certs.calls[g].host


(***************************************************************************)
(* SpecToken: a value of any kind, with any digest, is detected, replaced  *)
(* by its token, and the token is put before the compiled patterns again.  *)
(***************************************************************************)
\* values of each kind; the kinds without a pattern are found by the sidecar
SampleOriginals(piiType) ==
  CASE piiType = "email" -> { <<"a","@","b",".","i","o">> }
    [] piiType = "phone" ->
         { <<"5","5","5","-","1","2","3","-","4","5","6","7">>,
           <<"+","1"," ","(","5","5","5",")"," ","1","2","3","4","5","6","7">> }
    [] piiType = "ssn" -> { <<"1","2","3","-","4","5","-","6","7","8","9">> }
    [] piiType = "creditCard" ->
         { <<"4","1","1","1"," ","1","1","1","1"," ","1","1","1","1"," ",
             "1","1","1","1">> }
    [] piiType = "ipAddress" ->
         { <<"8",".","8",".","8",".","8">>, <<"f","e","8","0",":",":","1">> }
    [] piiType = "apiKey" ->
         { <<"t","o","k","e","n","=">> \o
           <<"a","b","c","d","e","f","g","h","i","j">> \o
           <<"0","1","2","3","4","5","6","7","8","9">> }
    [] piiType = "address" ->
         { <<"1","2"," ","E","l","m"," ","S","t">>,
           <<"9","0","2","1","0">> }
    [] OTHER -> { <<"B","o","b">> }

\* the digests of the model: every sequence of eight made of the digit the
\* phone pattern names and of a letter, and some with other hex digits
HexSample == {"1", "c"}

Digests ==
  [1..8 -> HexSample]
    \cup { <<"7","7","7","7","7","7","7","7">>,
           <<"1","7","0","3","9","9","4","2">>,
           <<"c","1","6","0","f","8","c","c">>,
           <<"7","f","4","e","1","b","0","2">>,
           <<"d","e","a","d","b","e","e","f">> }

notScan == <<notNet, dial, srv, jsonCall, certs, tunnels, registry>>

InitToken ==
  /\ InitAnon
  /\ useAI = FALSE

ScanStart(piiType, original) ==
  /\ scan.pc = "idle"
  /\ scan' = [NoScan EXCEPT !.pc = "text", !.piiType = piiType,
                            !.original = original]

NextToken ==
  \/ \E piiType \in PIITypes :
       \E original \in SampleOriginals(piiType) :
         ScanStart(piiType, original) /\ UNCHANGED notScan
  \/ ScanDetect /\ UNCHANGED notScan
  \/ \E h \in Digests : ScanReplace(h) /\ UNCHANGED notScan
  \/ ScanRedetect /\ UNCHANGED notScan

SpecToken == InitToken /\ [][NextToken]_vars

\* C30: the token made for a value of any kind, whatever the digest of the
\* value, is matched by none of the compiled patterns
C30_TokenMatchesNoPattern ==
  scan.pc = "done" => scan.again = {}

\* a phone number was found by the phone pattern, its digest holds digits
\* only, and its token went before the patterns
C30_Witness ==
  /\ scan.pc = "done"
  /\ scan.piiType = "phone"
  /\ 8 \in scan.found
  /\ \A k \in 1..8 : scan.digest[k] \in Digits
  /\ Len(scan.text) = 20

\* the patterns find the values of their kinds: each value of a kind that has
\* a pattern is matched by a pattern of that kind
ValuesDetected ==
  (scan.pc # "idle" /\ scan.pc # "text"
     /\ \E p \in DOMAIN Patterns : Patterns[p].piiType = scan.piiType)
  => \E p \in scan.found : Patterns[p].piiType = scan.piiType

(***************************************************************************)
(* The in-place update of a resident key.                                  *)
(***************************************************************************)
\* the goroutine g enters insertLocked in this step: from Set, or from the
\* cold path of Get after the backing store had the key
InsertBegins(g) ==
  \/ ops[g].pc = "idle" /\ ops'[g].op = "Set"
  \/ ops[g].pc = "insertLocked" /\ ops'[g] # ops[g]

\* the key and the value insertLocked is called with
InsertKey(g) == IF ops[g].pc = "idle" THEN ops'[g].key ELSE ops[g].key

InsertValue(g) == IF ops[g].pc = "idle" THEN ops'[g].value ELSE ops[g].value

\* C31: an insert (by Set or by the re-warm of a cold Get) of a key that is
\* memory-resident changes the value of its entry and nothing else: both
\* queues, the entry's counter and inM flag, every other entry and the ghost
\* ring are as before, nothing is evicted and no delete is started
C31_ResidentInsertOnlyValue ==
  [][\A g \in Goroutines :
       (InsertBegins(g) /\ InsertKey(g) \in DOMAIN s3fifo.entries)
       => /\ s3fifo' =
               [s3fifo EXCEPT !.entries[InsertKey(g)].value = InsertValue(g)]
          /\ s3fifo'.mu = 0
          /\ deleting' = deleting
          /\ backing' = backing]_vars

\* four calls were started: k1 was set and written, k2 was set behind it,
\* k1 was read, and the fourth call, a Set of k1 with another token, stands
\* before its backing-store write: k1 has the new value, its place in front
\* of k2 and its counter
C31_Witness ==
  /\ started = 4
  /\ s3fifo.mu = 0
  /\ s3fifo.sQueue = <<"k1", "k2">>
  /\ "k1" \in DOMAIN backing
  /\ backing["k1"] = "t1"
  /\ s3fifo.entries["k1"] = [value |-> "t2", freq |-> 1, inM |-> FALSE]
  /\ \E g \in Goroutines :
       ops[g] = [pc |-> "backing.Set", op |-> "Set", key |-> "k1",
                 value |-> "t2"]

(***************************************************************************)
(* What enters the ghost ring.                                             *)
(***************************************************************************)
\* C32: a key enters the ghost set only in a turn of the eviction loop that
\* takes it from the front of S with frequency 0 and out of memory; a key
\* that leaves memory from M, or by Delete (the mutex was free before the
\* step), is not added to the ghost set by that step
C32_GhostOnlyFromColdS ==
  [][LET added == s3fifo'.ghostSet \ s3fifo.ghostSet
         gone  == DOMAIN s3fifo.entries \ DOMAIN s3fifo'.entries
     IN  /\ added \subseteq gone
         /\ \A k \in added :
              /\ s3fifo.mu # 0
              /\ s3fifo.sQueue # <<>>
              /\ Head(s3fifo.sQueue) = k
              /\ ~s3fifo.entries[k].inM
              /\ s3fifo.entries[k].freq = 0
         /\ \A k \in gone :
              (s3fifo.entries[k].inM \/ s3fifo.mu = 0) => k \notin added]_vars

\* a key was evicted from M (its asynchronous delete is pending) and is no
\* ghost, although the ring has never dropped a key; a key evicted from S
\* is a ghost
C32_Witness ==
  /\ s3fifo.ghostHead = 0
  /\ s3fifo.ghostCount >= 1
  /\ s3fifo.ghostCount < s3fifo.ghostCap
  /\ \E k \in CacheKeys :
       /\ deleting[k] > 0
       /\ k \notin DOMAIN s3fifo.entries
       /\ k \notin s3fifo.ghostSet

(***************************************************************************)
(* The ghost ring.                                                         *)
(***************************************************************************)
\* the live slots of the ring, oldest first
LiveGhosts(c) ==
  [i \in 1..c.ghostCount |-> c.ghostBuf[(c.ghostHead + i - 1) % c.ghostCap]]

\* C33: with the mutex free, the live slots of the ghost ring hold pairwise
\* distinct keys which are exactly the keys of ghostSet; ghostAdd of a key
\* that is a ghost changes nothing, ghostAdd of a new key to a full ring
\* drops the oldest ghost and no other, and to a ring with room drops none
C33_GhostRingDistinct ==
  s3fifo.mu = 0 =>
    LET live == LiveGhosts(s3fifo)
    IN  /\ \A i, j \in DOMAIN live : live[i] = live[j] => i = j
        /\ {live[i] : i \in DOMAIN live} = s3fifo.ghostSet
        /\ \A k \in CacheKeys :
             LET d == ghostAdd(s3fifo, k)
             IN  IF k \in s3fifo.ghostSet
                 THEN d = s3fifo
                 ELSE IF s3fifo.ghostCount = s3fifo.ghostCap
                 THEN /\ LiveGhosts(d) = Append(Tail(live), k)
                      /\ d.ghostSet = (s3fifo.ghostSet \ {live[1]}) \cup {k}
                 ELSE /\ LiveGhosts(d) = Append(live, k)
                      /\ d.ghostSet = s3fifo.ghostSet \cup {k}

\* the ring is full and has dropped its oldest key at least once, and one
\* of the ghosts is memory-resident again (in M)
C33_Witness ==
  /\ s3fifo.mu = 0
  /\ s3fifo.ghostCount = s3fifo.ghostCap
  /\ s3fifo.ghostHead = 1
  /\ \E k \in s3fifo.ghostSet :
       k \in DOMAIN s3fifo.entries /\ s3fifo.entries[k].inM

(***************************************************************************)
(* The entries map and the two queues.                                     *)
(***************************************************************************)
\* how often the key stands in the queue
Occurrences(queue, key) == Cardinality({i \in DOMAIN queue : queue[i] = key})

\* C34: with the mutex free, under every interleaving of Get, Set and
\* Delete, the keys of entries are the keys of sQueue and mQueue, a resident
\* key stands once in one queue and not in the other, inM says which, and
\* len(entries) = |S| + |M|
C34_EntriesMatchQueues ==
  s3fifo.mu = 0 =>
    /\ \A k \in CacheKeys :
         IF k \in DOMAIN s3fifo.entries
         THEN /\ Occurrences(s3fifo.sQueue, k) + Occurrences(s3fifo.mQueue, k) = 1
              /\ s3fifo.entries[k].inM <=> Occurrences(s3fifo.mQueue, k) = 1
         ELSE /\ Occurrences(s3fifo.sQueue, k) = 0
              /\ Occurrences(s3fifo.mQueue, k) = 0
    /\ Cardinality(DOMAIN s3fifo.entries)
         = Len(s3fifo.sQueue) + Len(s3fifo.mQueue)

\* a key has been promoted to M, another stands in S, a third is a ghost,
\* and two goroutines stand between their insert and their backing write
C34_Witness ==
  /\ s3fifo.mu = 0
  /\ s3fifo.mQueue # <<>>
  /\ s3fifo.sQueue # <<>>
  /\ s3fifo.ghostCount > 0
  /\ \E g, h \in Goroutines :
       g # h /\ ops[g].pc = "backing.Set" /\ ops[h].pc = "backing.Set"

(***************************************************************************)
(* The output of a stream and the sizes of the reads.                      *)
(***************************************************************************)
\* the goroutine's locals and output after one Read that returns the first
\* n bytes of the source of the stream i at once
InOneRead(i, n) ==
  ProcessBytes(streams[i].tokenMap,
               [streams[i] EXCEPT !.lineBuf = <<>>, !.textAccum = <<>>,
                                  !.out = <<>>],
               Slice(streams[i].src, 1, n))

\* C35: what a stream has written, and what it holds back, depends on the
\* bytes read so far and on the token map only, not on how the reads split
\* them: after any sequence of reads it is what one read of the same bytes
\* gives, and the output of the finished stream is that of a run that reads
\* the whole source in one read
C35_OutputIgnoresChunking ==
  \A i \in Streams :
    /\ streams[i].pc = "run" =>
         LET one == InOneRead(i, streams[i].pos)
         IN  /\ streams[i].out = one.out
             /\ streams[i].lineBuf = one.lineBuf
             /\ streams[i].textAccum = one.textAccum
    /\ (streams[i].pc = "closed" /\ DOMAIN streams[i].tokenMap # {}) =>
         streams[i].out
           = FlushAtEnd(streams[i].tokenMap,
                        InOneRead(i, Len(streams[i].src))).out
    /\ (streams[i].pc \in {"pass", "closed"} /\ DOMAIN streams[i].tokenMap = {})
         => streams[i].out = Slice(streams[i].src, 1, streams[i].pos)

\* a read has ended inside a token that stands in a line which is not yet
\* complete, behind text that is held back
C35_Witness ==
  \E i \in Streams :
    /\ streams[i].pc = "run"
    /\ streams[i].textAccum # <<>>
    /\ streams[i].out # <<>>
    /\ Len(streams[i].lineBuf) >= 1
    /\ streams[i].lineBuf[Len(streams[i].lineBuf)] = "I"
    /\ streams[i].pos < Len(streams[i].src)

(***************************************************************************)
(* The size of the text accumulator.                                       *)
(***************************************************************************)
\* the text of the text_delta events in the lines the goroutine has
\* processed so far
DeltaTextProcessed(i) ==
  DeltaText(Slice(streams[i].src, 1,
                  streams[i].pos - Len(streams[i].lineBuf)))

\* C36: the accumulator never holds more than tokenSuffixLen = 26 bytes once
\* a line is processed, however long the deltas are; and as long as the
\* delta text received is 26 bytes or shorter all of it is in the
\* accumulator and the events emitted carry no text
C36_AccumulatorBounded ==
  \A i \in Streams :
    streams[i].pc = "run" =>
      /\ Len(streams[i].textAccum) <= 26
      /\ (/\ streams[i].src \in DeltaBodies \cup LongBodies
          /\ Len(DeltaTextProcessed(i)) <= 26)
         => /\ streams[i].textAccum = DeltaTextProcessed(i)
            /\ DeltaText(streams[i].out) = <<>>

\* more than twice 26 bytes of delta text have been received: the
\* accumulator holds 26 of them and the rest has been emitted
C36_Witness ==
  \E i \in Streams :
    /\ streams[i].pc = "run"
    /\ Len(streams[i].textAccum) = 26
    /\ Len(DeltaTextProcessed(i)) > 2 * 26
    /\ Len(DeltaText(streams[i].out)) > 0
    /\ streams[i].pos = Len(streams[i].src)

(***************************************************************************)
(* Sessions of concurrent requests.  Two goroutines anonymize, de-anonymize *)
(* (buffered and streamed) and delete, each under a session id of its      *)
(* choice, the empty one included.                                         *)
(***************************************************************************)
\* the request text of each goroutine
SessionTexts == <<<<"e1">>, <<"p1">>>>

\* the tokens that can be recorded
SessionTokens == {TokenE, TokenP}

\* the response text: it holds the tokens of both requests
ResponseText == TokenP \o <<"a">> \o TokenE

InitSession ==
  /\ InitAnonWith({1, 2})
  /\ useAI = FALSE

NextSession ==
  \/ \E c \in Callers, s \in AnySessionIds :
       /\ streams[c].pc = "idle"
       /\ AnonymizeTextCall(c, SessionTexts[c], s)
       /\ UNCHANGED notAnon
  \/ \E c \in Callers : AnonymizeTextMatch(c) /\ UNCHANGED notAnon
  \/ \E c \in Callers : AnonymizeTextReturn(c) /\ UNCHANGED notAnon
  \/ \E c \in Callers, s \in AnySessionIds :
       /\ streams[c].pc = "idle"
       /\ DeanonymizeTextCall(c, ResponseText, s)
       /\ UNCHANGED notAnon
  \/ \E c \in Callers : DeanonymizeTextReturn(c) /\ UNCHANGED notAnon
  \/ \E s \in SessionIds : DeleteSession(s) /\ UNCHANGED notSession
  \/ \E i \in Streams, s \in AnySessionIds :
       /\ calls[i].pc = "idle"
       /\ StreamingDeanonymize(i, ResponseText, "EOF", s)
       /\ UNCHANGED notStream
  \/ \E i \in Streams :
       /\ streams[i].pc \in {"run", "pass"}
       /\ StreamRead(i, Len(streams[i].src) - streams[i].pos)
       /\ UNCHANGED notStream
  \/ \E i \in Streams : StreamReadErr(i) /\ UNCHANGED notStream
  \/ \E i \in Streams : StreamDone(i) /\ UNCHANGED notStream

SpecSession == InitSession /\ [][NextSession]_vars

\* the mapping of session b differs after the step
SessionChanged(b) ==
  \/ (b \in DOMAIN sessions) # (b \in DOMAIN sessions')
  \/ Inner(sessions, b) # Inner(sessions', b)

\* the callback of goroutine c calls recordMapping in the step
RecordsMapping(c) == calls[c].pc = "scan" /\ calls'[c] # calls[c]

\* goroutine c calls DeanonymizeText in the step
Deanonymizes(c) == calls[c].pc = "idle" /\ calls'[c].pc = "deanonymized"

\* stream i is started, or its goroutine takes a step
StreamStarts(i) == streams[i].pc = "idle" /\ streams'[i].pc # "idle"

StreamSteps(i) ==
  /\ streams[i].pc \in {"run", "pass"}
  /\ \/ streams'[i].pc # streams[i].pc
     \/ streams'[i].pos # streams[i].pos

\* text after an operation under a session whose mapping is tokenMap: a
\* token that is not in tokenMap is still where it was, and a text without
\* a token of tokenMap is unchanged
Untouched(text, result, tokenMap) ==
  /\ \A t \in SessionTokens \ DOMAIN tokenMap :
       Contains(text, t) => Contains(result, t)
  /\ (\A t \in DOMAIN tokenMap : ~Contains(text, t)) => result = text

\* C37: sessions are isolated.  A step changes the mapping of at most one
\* session; a mapping that grows or is created is the one of the session
\* whose AnonymizeText records a pair in the step, and a recordMapping under
\* the empty session id changes nothing; DeanonymizeText and the steps of
\* StreamingDeanonymize change no mapping; DeanonymizeText under session a
\* leaves every token that a has not recorded in the text, whatever the other
\* sessions hold, and so does the stream, whose replacer is built from the
\* mapping of its own session; under the empty session id nothing is ever
\* recorded and text and stream are returned as they are.
C37_SessionsIsolated ==
  /\ [](/\ "" \notin DOMAIN sessions
        /\ \A i \in Streams :
             streams[i].pc \in {"run", "pass", "closed"} =>
               /\ streams[i].sid = "" =>
                    /\ streams[i].pc # "run"
                    /\ streams[i].out = Slice(streams[i].src, 1, streams[i].pos)
               /\ streams[i].pc = "closed" =>
                    Untouched(streams[i].src, streams[i].out,
                              streams[i].tokenMap))
  /\ [][/\ Cardinality({b \in AnySessionIds : SessionChanged(b)}) <= 1
        /\ \A b \in AnySessionIds :
             (SessionChanged(b) /\ b \in DOMAIN sessions') =>
               \E c \in Callers : RecordsMapping(c) /\ calls[c].sid = b
        /\ \A c \in Callers :
             (RecordsMapping(c) /\ calls[c].sid = "") => sessions' = sessions
        /\ \A c \in Callers :
             Deanonymizes(c) =>
               /\ sessions' = sessions
               /\ Untouched(calls'[c].text, calls'[c].result,
                            Inner(sessions, calls'[c].sid))
               /\ calls'[c].sid = "" => calls'[c].result = calls'[c].text
        /\ \A i \in Streams :
             /\ (StreamStarts(i) \/ StreamSteps(i)) => sessions' = sessions
             /\ StreamStarts(i) =>
                  streams'[i].tokenMap = Inner(sessions, streams'[i].sid)]_vars

\* session s1 holds the e-mail token only and s2 the phone token only; a
\* response with both tokens has been de-anonymized under s1 and still has
\* the phone token, and a stream of it under s2 still has the e-mail token
C37_Witness ==
  /\ DOMAIN sessions = {"s1", "s2"}
  /\ DOMAIN sessions["s1"] = {TokenE}
  /\ DOMAIN sessions["s2"] = {TokenP}
  /\ calls[1].pc = "deanonymized"
  /\ calls[1].sid = "s1"
  /\ calls[1].text = TokenP \o <<"a">> \o TokenE
  /\ calls[1].result = TokenP \o <<"a", "e1">>
  /\ calls[2].pc = "idle"
  /\ streams[2].pc = "closed"
  /\ streams[2].sid = "s2"
  /\ streams[2].out = <<"p1", "a">> \o TokenE

(***************************************************************************)
(* Specification of the warm-up goroutine and the sidecar: a goroutine     *)
(* calls AnonymizeText with low-confidence values, and the sidecar answers *)
(* each query as it likes.                                                 *)
(***************************************************************************)

\* the exchange fails: connection refused, the timeout, a broken body
FailedResponses ==
  {[exchange |-> e, json |-> FALSE, text |-> <<>>] :
     e \in {"connect", "timeout", "read"}}

\* the exchange succeeds and the body is an object with the text
Answer(text) == [exchange |-> "ok", json |-> TRUE, text |-> text]

\* answers queryOllamaHTTP cannot parse: no JSON object, a text without an
\* array, with "]" before "[", with an array of something else, with two
\* arrays; a detection of v that is not in an array, or in an array with
\* something else
UnparsableResponses(v) ==
  LET d == DetectionItem([original |-> v, piiType |-> "phone",
                          confidence |-> 90])
  IN
  {[exchange |-> "ok", json |-> FALSE, text |-> <<>>],
   Answer(<<>>),
   Answer(<<TextItem("x")>>),
   Answer(<<TextItem("]"), TextItem("[")>>),
   Answer(<<TextItem("[")>>),
   Answer(<<TextItem("["), TextItem("x"), TextItem("]")>>),
   Answer(ArrayText(<<>>) \o <<TextItem("x")>> \o ArrayText(<<>>)),
   Answer(<<d>>),
   Answer(<<TextItem("["), d, TextItem("x"), TextItem("]")>>)}

\* the lists of detections the sidecar may return for value v: those of
\* SidecarReplies, a detection of another value, one below the threshold
\* followed by one above it
DetectionLists(v) ==
  SidecarReplies(v)
    \cup {<< [original |-> w, piiType |-> "name", confidence |-> 90] >> :
            w \in Values \ {v}}
    \cup {<< [original |-> v, piiType |-> "name",  confidence |-> 69],
             [original |-> v, piiType |-> "phone", confidence |-> 70] >>}

\* answers with an array of detections, bare or inside other text
ParsableResponses(v) ==
  {Answer(ArrayText(dets)) : dets \in DetectionLists(v)}
    \cup {Answer(<<TextItem("x")>> \o ArrayText(dets) \o <<TextItem("x")>>) :
            dets \in SidecarReplies(v)}

SidecarResponses(v) ==
  FailedResponses \cup UnparsableResponses(v) \cup ParsableResponses(v)

\* the answer the goroutine got
ObservedQuery(resp) == warm' = [warm EXCEPT !.resp = resp]

\* the calls of AnonymizeText in all
MaxSidecarCalls == 2

InitSidecar ==
  /\ InitAnonymizer({1})
  /\ useAI = TRUE
  /\ InitCacheWith({}, {0})

NextSidecar ==
  \/ \E c \in Callers, t \in WarmTexts :
       /\ started < MaxSidecarCalls
       /\ AnonymizeTextCall(c, t, "s1")
       /\ started' = started + 1
       /\ UNCHANGED <<streamVars, proxyVars, s3fifo, backing, deleting, ops,
                      hist, ghosted, hits, written, warm, netVars>>
  \/ \E c \in Callers : AnonymizeTextMatch(c) /\ UNCHANGED notAnon
  \/ \E c \in Callers : AnonymizeTextDispatch(c) /\ UNCHANGED notAnon
  \/ \E c \in Callers : AnonymizeTextReturn(c) /\ UNCHANGED notAnon
  \/ \E v \in Values : TaskAcquire(v) /\ UNCHANGED notAnon
  \/ \E v \in Values :
       \E resp \in SidecarResponses(v) :
         TaskQueryHTTP(v, resp) /\ ObservedQuery(resp) /\ UNCHANGED notWarm
  \/ \E v \in Values : TaskRelease(v) /\ UNCHANGED notAnon
  \/ \E v \in Values : TaskCleanup(v) /\ UNCHANGED notAnon

SpecSidecar == InitSidecar /\ [][NextSidecar]_vars

\* the goroutine for v leaves queryOllamaHTTP in the step
QueryReturns(v) == tasks'[v]["query"] < tasks[v]["query"]

\* the goroutine for v finds no semaphore slot in the step
TaskDropped(v) ==
  /\ tasks'[v]["acquire"] < tasks[v]["acquire"]
  /\ tasks'[v]["query"] = tasks[v]["query"]

\* the binding of key k differs after the step
BindingChanged(k) ==
  \/ (k \in DOMAIN cache) # (k \in DOMAIN cache')
  \/ k \in DOMAIN cache /\ k \in DOMAIN cache' /\ cache'[k] # cache[k]

\* the answer has a detection of k that qualifies and names the token
Qualifies(resp, k, token) ==
  \E i \in 1..Len(resp.text) :
    /\ resp.text[i].sym = "d"
    /\ resp.text[i].original = k
    /\ k # ""
    /\ resp.text[i].confidence >= 70
    /\ token = replacement(resp.text[i].piiType, k)

\* C38: a warm-up goroutine changes the value cache only when queryOllamaHTTP
\* returns, and then only to bind the original of a returned detection with
\* a non-empty original and a confidence of at least the threshold to the
\* token of the detection's kind; when the exchange with the sidecar fails or
\* times out or its answer cannot be parsed, and when the goroutine finds
\* no semaphore slot, the cache is as before; no step of a warm-up goroutine
\* changes a call of AnonymizeText or a session.
C38_WarmupStoresOnlyDetections ==
  [][\A v \in Values :
       /\ QueryReturns(v) =>
            /\ \A k \in Values :
                 BindingChanged(k) =>
                   /\ k \in DOMAIN cache'
                   /\ Qualifies(warm'.resp, k, cache'[k])
            /\ warm'.resp \in FailedResponses \cup UnparsableResponses(v)
                 => cache' = cache
       /\ TaskDropped(v) => cache' = cache
       /\ tasks'[v] # tasks[v] =>
            /\ QueryReturns(v) \/ cache' = cache
            /\ tasks'[v]["acquire"] > tasks[v]["acquire"] \/ calls' = calls
            /\ tasks'[v]["acquire"] > tasks[v]["acquire"]
                 \/ sessions' = sessions]_vars

\* a goroutine has found the semaphore taken and ended, the sidecar has
\* answered the other with a detection below the threshold followed by one
\* at the threshold, and the cache holds the binding of the second
C38_Witness ==
  /\ tasks["p1"]["cleanup"] = 1
  /\ ollamaSem = 1
  /\ tasks["p2"]["release"] = 1
  /\ warm.resp = Answer(ArrayText(
       << [original |-> "p2", piiType |-> "name",  confidence |-> 69],
          [original |-> "p2", piiType |-> "phone", confidence |-> 70] >>))
  /\ DOMAIN cache = {"p2"}
  /\ cache["p2"] = replacement("phone", "p2")
  /\ calls[1].pc = "done"

(***************************************************************************)
(* Specification of the intercepted connections.                           *)
(***************************************************************************)
notTunnel == <<notNet, dial, srv, jsonCall, certs, scan, registry>>

InitTunnel ==
  /\ InitAnon
  /\ useAI = FALSE

\* a step of the goroutines of connection t
TunnelStep(t) ==
  \/ \E proto \in Handshakes : HandleConn(t, proto) /\ UNCHANGED notTunnel
  \/ Accept(t) /\ UNCHANGED notTunnel
  \/ ConnServeReturn(t) /\ UNCHANGED notTunnel
  \/ ServeConnReturn(t) /\ UNCHANGED notTunnel
  \/ handleMITMTunnelReturn(t) /\ UNCHANGED notTunnel

NextTunnel ==
  \/ \E t \in Tunnels : handleMITMTunnel(t) /\ UNCHANGED notTunnel
  \/ \E t \in Tunnels : ClientClose(t) /\ UNCHANGED notTunnel
  \/ \E t \in Tunnels : TunnelStep(t)

SpecTunnel == InitTunnel /\ [][NextTunnel]_vars

\* the scheduler runs every goroutine that can take a step
SpecTunnelFair == SpecTunnel /\ \A t \in Tunnels : WF_vars(TunnelStep(t))

\* C39: on an intercepted HTTP/1.1 connection Accept hands the connection
\* out once; an Accept that blocks ends once the connection has been closed
\* (which is what Close does); and once the client has closed the connection
\* the CONNECT handler returns.
C39_HandlerReturnsAfterClose ==
  /\ [][\A t \in Tunnels :
          (tunnels'[t].serving /\ ~tunnels[t].serving)
            => ~tunnels[t].done /\ tunnels'[t].done]_vars
  /\ \A t \in Tunnels :
       (tunnels[t].pc = "blocked" /\ tunnels[t].connClosed)
         ~> (tunnels[t].pc # "blocked")
  /\ \A t \in Tunnels :
       (tunnels[t].proto = "http/1.1" /\ tunnels[t].clientGone)
         ~> (tunnels[t].pc = "returned")

\* what does hold: Accept hands the connection out once, and the handler of
\* a connection that does not reach the accept loop returns
TunnelReturnsUnlessAccepting ==
  /\ [][\A t \in Tunnels :
          (tunnels'[t].serving /\ ~tunnels[t].serving)
            => ~tunnels[t].done /\ tunnels'[t].done]_vars
  /\ \A t \in Tunnels :
       (tunnels[t].proto \in {"failed", "h2"})
         ~> (tunnels[t].pc = "returned")

\* an Accept that has blocked never ends
BlockedForever ==
  [][\A t \in Tunnels :
       tunnels[t].pc = "blocked" => tunnels'[t].pc = "blocked"]_vars

(***************************************************************************)
(* Specification of the domain registry: two goroutines call Add and       *)
(* Remove, then the process is started again.                              *)
(***************************************************************************)
notRegistry == <<notNet, dial, srv, jsonCall, certs, scan, tunnels>>

\* the calls of Add and Remove in all
MaxRegistryCalls == 3

InitRegistry ==
  /\ InitAnon
  /\ useAI = FALSE

NextRegistry ==
  \/ \E g \in RegistryCallers, d \in Domains :
       /\ registry.started < MaxRegistryCalls
       /\ DomainRegistryAdd(g, d)
       /\ UNCHANGED notRegistry
  \/ \E g \in RegistryCallers, d \in Domains :
       /\ registry.started < MaxRegistryCalls
       /\ DomainRegistryRemove(g, d)
       /\ UNCHANGED notRegistry
  \/ \E g \in RegistryCallers : persist(g) /\ UNCHANGED notRegistry
  \/ \E g \in RegistryCallers : persistFails(g) /\ UNCHANGED notRegistry
  \/ RegistryRestart /\ UNCHANGED notRegistry

SpecRegistry == InitRegistry /\ [][NextRegistry]_vars

\* every call of Add and Remove has returned, there has been one, and no
\* write has failed
RegistryQuiet ==
  /\ registry.started > 0
  /\ ~registry.failed
  /\ \A g \in RegistryCallers : registry.calls[g].pc = "idle"

\* C40: once all the calls of Add and Remove have returned (and no write
\* failed), the persisted file lists exactly the domains in memory, and a
\* registry created from the file after a restart has exactly the domains
\* that were registered before it.
C40_FileMatchesMemory ==
  RegistryQuiet =>
    /\ registry.file.exists
    /\ ~registry.restarted => Loaded(registry.file.data) = registry.domains
    /\ registry.restarted => registry.domains = registry.before

\* what does hold: the file is one of the snapshots taken, and with one call
\* at a time it is the last one
FileIsSomeSnapshot ==
  /\ registry.file.exists =>
       registry.file.data = snapshotLocked(Loaded(registry.file.data))
  /\ (RegistryQuiet /\ registry.started = 1 /\ ~registry.restarted) =>
       Loaded(registry.file.data) = registry.domains

=============================================================================
